---------------------------- MODULE Spec2Model ----------------------------
(***************************************************************************)
(* A model of the CodeForge preview pipeline: the artifact extractor       *)
(* (parseGeneratedContent, cleanResponseText), the preview assembler       *)
(* (assemblePreview with transpileCppToJs and simulateNativeLanguage) and  *)
(* the history handling of the App component.                              *)
(*                                                                         *)
(* Strings are sequences of tokens.  A token is a run of characters that   *)
(* the regular expressions of the source never split: the three asterisks  *)
(* of a marker, a word, a blank, a line break, a code fence.  Every        *)
(* regular expression of the source is an operator on token sequences.     *)
(***************************************************************************)
EXTENDS Integers, Sequences, FiniteSets, TLC

VARIABLES
    \* ---- extractor (src/App.tsx 748-810) ----
    segs,           \* the pieces the response text was composed of
    text,           \* the raw model response
    files,          \* parseGeneratedContent(text), or NotRun
    residual,       \* cleanResponseText(text), or NotRun
    \* ---- native simulator (src/utils/compiler.ts 7-66) ----
    cppLines,       \* the pieces of the C++ source
    cppJs,          \* the lines of the rewritten body, or NotRun
    \* ---- assembler (src/utils/compiler.ts 102-494) ----
    aFiles,         \* the artifact list handed to assemblePreview
    out,            \* what assemblePreview returned, or NotRun
    \* ---- App component (src/App.tsx 10-222) ----
    generatedFiles, \* the displayed artifact list
    history,        \* the undo/redo stack of artifact lists
    historyIndex,   \* the position in history, -1 when empty
    genState,       \* [isGenerating, error]
    inflight,       \* the model requests that have not returned yet
    lastDone,       \* the request that returned last, with the state before it
    \* ---- the preview document at run time (src/utils/compiler.ts 53-65,
    \*      127-177, 444-459) ----
    rPage,          \* the kind of document loaded in the preview frame
    rStmts,         \* the statements of the artifact body still to run
    rPc,            \* the position of the script being run
    rRoot,          \* the content of the element with id root
    rLog,           \* the events posted on the log channel
    rTasks,         \* the tasks queued for later turns of the event loop
    rFault,         \* the error thrown by the body, with the state around it
    \* ---- FileViewer and its preview frame (src/components/FileViewer.tsx
    \*      78-111, 160-172, 234-239, 612-617) ----
    vFiles,         \* the files prop: the artifact ids of the displayed list
    previewHtml,    \* the previewHtml state, the srcDoc of the iframe
    vLogs,          \* the logs state, each entry with the frame that posted it
    frame,          \* the document loaded in the iframe and what it has yet to post
    channel,        \* the messages posted to the window and not yet dispatched
    mainView,       \* the mainView state: code or preview
    vOps,           \* the number of operations of the user on the viewer
    lastOp          \* the last of those operations

extractVars == <<segs, text, files, residual>>
cppVars     == <<cppLines, cppJs>>
asmVars     == <<aFiles, out>>
appVars     == <<generatedFiles, history, historyIndex, genState, inflight, lastDone>>
runVars     == <<rPage, rStmts, rPc, rRoot, rLog, rTasks, rFault>>
viewVars    == <<vFiles, previewHtml, vLogs, frame, channel, mainView, vOps, lastOp>>
vars        == <<extractVars, cppVars, asmVars, appVars, runVars, viewVars>>

NotRun == "NotRun"

\* ------------------------------------------------------------------------
\* Bounds of the model
\* ------------------------------------------------------------------------
MaxSegs == 3        \* pieces of a response text
MaxCppLines == 3    \* statements in the body of a C++ main function
MaxFiles == 2       \* artifacts handed to assemblePreview
MaxHistory == 2     \* versions kept in the history
MaxInflight == 2    \* requests to the model awaiting their response

\* ------------------------------------------------------------------------
\* String helpers (JavaScript String methods on token sequences)
\* ------------------------------------------------------------------------
\* the element of a one-element set. A name bound by x \in {e} stands for the
\* value of e, computed once, where a LET name stands for the expression
Only(S) == CHOOSE x \in S : TRUE

\* the least position of a set of positions, 0 for the empty set
Least(S) ==
    Only({IF T = {} THEN 0 ELSE CHOOSE i \in T : \A j \in T : i <= j : T \in {S}})

Min(a, b) == IF a < b THEN a ELSE b
Max(a, b) == IF a > b THEN a ELSE b

\* \s of a regular expression, and the characters String.trim removes
IsWs(t) == t \in {" ", "\n"}

RECURSIVE Flatten(_)
Flatten(ss) == IF ss = <<>> THEN <<>> ELSE Head(ss) \o Flatten(Tail(ss))

\* s.substring(from - 1): the tokens from position from on
From(s, from) == SubSeq(s, from, Len(s))

\* the first position >= from whose token is not white space (Len(s)+1 if none)
RECURSIVE SkipWs(_, _)
SkipWs(s, from) ==
    IF from <= Len(s) /\ IsWs(s[from]) THEN SkipWs(s, from + 1) ELSE from

\* String.prototype.trim
RECURSIVE TrimEnd(_)
TrimEnd(s) ==
    IF s # <<>> /\ IsWs(s[Len(s)]) THEN TrimEnd(SubSeq(s, 1, Len(s) - 1)) ELSE s
Trim(s) == TrimEnd(From(s, SkipWs(s, 1)))

\* pat occurs in s at position i
OccursAt(s, pat, i) ==
    /\ i >= 1
    /\ i + Len(pat) - 1 <= Len(s)
    /\ SubSeq(s, i, i + Len(pat) - 1) = pat

\* s.indexOf(pat, from): the first position >= from where pat occurs, 0 if none
IndexOf(s, pat, from) ==
    Only({Least({i \in from..Len(str) : OccursAt(str, pat, i)}) : str \in {s}})

Includes(s, pat) == IndexOf(s, pat, 1) # 0

EndsWith(s, pat) == OccursAt(s, pat, Len(s) - Len(pat) + 1)

\* s.lastIndexOf(t) for one token, 0 if none
LastIndexOfTok(s, t) ==
    LET hits == {i \in 1..Len(s) : s[i] = t}
    IN  IF hits = {} THEN 0 ELSE CHOOSE i \in hits : \A j \in hits : i >= j

\* s.split('\n')
RECURSIVE SplitLines(_)
SplitLines(s) ==
    LET n == IndexOf(s, <<"\n">>, 1)
    IN  IF n = 0 THEN <<s>>
        ELSE <<SubSeq(s, 1, n - 1)>> \o SplitLines(From(s, n + 1))

\* String.prototype.toLowerCase, token by token
LowerTok(t) ==
    CASE t = "TXT"  -> "txt"
      [] t = "B"    -> "b"
      [] t = "File" -> "file"
      [] t = "Makefile" -> "makefile"
      [] t = "Preview" -> "preview"
      [] t = "App" -> "app"
      [] t = "CPP" -> "cpp"
      [] t = "PY" -> "py"
      [] OTHER      -> t
LowerCase(s) == [i \in 1..Len(s) |-> LowerTok(s[i])]


\* ------------------------------------------------------------------------
\* Character classes of the extractor's regular expressions
\* ------------------------------------------------------------------------
AST == "***"                \* \*\*\*
FENCE == "FENCE"            \* a code fence: a run of three backticks

\* words made of letters only: [a-z]+ under the i flag
AlphaWords ==
    {"a", "B", "txt", "TXT", "js", "ts", "py", "app", "Makefile", "hello",
     "code", "file", "File", "filename", "profile", "see", "text"}
\* words of [a-zA-Z0-9_-]+ that are not letters only
OtherTagWords == {"FILE_START", "FILE_END", "file_", "v2"}

IsAlphaTok(t) == t \in AlphaWords                     \* [a-z] with /i
IsTagTok(t)   == t \in AlphaWords \cup OtherTagWords  \* [a-zA-Z0-9_-]
IsNameTok(t)  == IsTagTok(t) \/ t \in {".", "/"}      \* [a-zA-Z0-9_./-]
IsDotTok(t)   == t # "\n"                             \* . (no s flag)

\* the end of the longest run of tokens satisfying the class, starting at from
\* (from - 1 when the run is empty)
RunEnd(s, from, Class(_)) ==
    LET bad == {i \in from..Len(s) : ~Class(s[i])}
    IN  IF from > Len(s) THEN from - 1
        ELSE IF bad = {} THEN Len(s)
        ELSE (CHOOSE i \in bad : \A j \in bad : i <= j) - 1

NoMatch == [ok |-> FALSE]

\* ------------------------------------------------------------------------
\* parseGeneratedContent, primary strategy (src/App.tsx 752-770)
\* ------------------------------------------------------------------------
FileStartMarker == <<AST, "FILE_START", ":">>     \* \*\*\*FILE_START:
FileEndMarker   == <<AST, "FILE_END", AST>>       \* \*\*\*FILE_END\*\*\*

\* One attempt of delimiterRegex at position i:
\*   \*\*\*FILE_START:\s*(.*?)\s*\*\*\*([\s\S]*?)\*\*\*FILE_END\*\*\*
\* The lazy (.*?) takes the fewest tokens of one line for which the rest of
\* the pattern still matches; the lazy body ends at the first end marker.
delimiterRegexAt(s, i) ==
    IF ~OccursAt(s, FileStartMarker, i) THEN NoMatch
    ELSE
      LET p == SkipWs(s, i + 3)
          Close(e) == SkipWs(s, e)      \* where the header's closing *** must be
          e == Least({x \in p..(RunEnd(s, p, IsDotTok) + 1) :
                        /\ Close(x) <= Len(s)
                        /\ s[Close(x)] = AST
                        /\ IndexOf(s, FileEndMarker, Close(x) + 1) # 0})
          q == Close(e)
          r == IndexOf(s, FileEndMarker, q + 1)
      IN  IF e = 0 THEN NoMatch
          ELSE [ok |-> TRUE, index |-> i, g1 |-> SubSeq(s, p, e - 1),
                g2 |-> SubSeq(s, q + 1, r - 1), lastIndex |-> r + 3]

\* delimiterRegex.exec(text) with the g flag: the leftmost match at or after from
delimiterRegexExec(s, from) ==
    Only({IF i = 0 THEN NoMatch ELSE delimiterRegexAt(s, i) :
            i \in {Least({x \in from..Len(s) : delimiterRegexAt(s, x).ok})}})

\* extOf without toLowerCase
extOfCaseKept(filename) ==
    LET last == From(filename, LastIndexOfTok(filename, ".") + 1)
    IN  IF last = <<>> THEN <<"text">> ELSE last

\* filename.split('.').pop()?.toLowerCase() || 'text'
extOf(filename) ==
    LET last == From(filename, LastIndexOfTok(filename, ".") + 1)
    IN  IF last = <<>> THEN <<"text">> ELSE LowerCase(last)

\* content.replace(/^FENCE[a-z]*\n/i, '')
stripLeadingFence(content) ==
    IF content # <<>> /\ Head(content) = FENCE
    THEN LET e == RunEnd(content, 2, IsAlphaTok)
         IN  IF e + 1 <= Len(content) /\ content[e + 1] = "\n"
             THEN From(content, e + 2) ELSE content
    ELSE content

\* content.replace(/\nFENCE$/, '')
stripTrailingFence(content) ==
    IF EndsWith(content, <<"\n", FENCE>>)
    THEN SubSeq(content, 1, Len(content) - 2) ELSE content

\* the body of the while loop, lines 756-769
primaryFile(m) ==
    LET filename == Trim(m.g1)
        content  == Trim(m.g2)
    IN  [name     |-> filename,
         language |-> extOf(filename),
         content  |-> stripTrailingFence(stripLeadingFence(content))]

RECURSIVE primaryLoop(_, _)
primaryLoop(s, from) ==
    Only({IF ~m.ok THEN <<>> ELSE <<primaryFile(m)>> \o primaryLoop(s, m.lastIndex) :
            m \in {delimiterRegexExec(s, from)}})

\* ------------------------------------------------------------------------
\* parseGeneratedContent, fallback strategy (src/App.tsx 773-802)
\* ------------------------------------------------------------------------
\* One attempt of codeBlockRegex at position i:
\*   (FENCE)([a-zA-Z0-9_-]*)\n([\s\S]*?)\1
codeBlockRegexAt(s, i) ==
    IF ~(i <= Len(s) /\ s[i] = FENCE) THEN NoMatch
    ELSE
      LET e == RunEnd(s, i + 1, IsTagTok)
          r == IndexOf(s, <<FENCE>>, e + 2)
      IN  IF e + 1 <= Len(s) /\ s[e + 1] = "\n" /\ r # 0
          THEN [ok |-> TRUE, index |-> i, g2 |-> SubSeq(s, i + 1, e),
                g3 |-> SubSeq(s, e + 2, r - 1), lastIndex |-> r + 1]
          ELSE NoMatch

codeBlockRegexExec(s, from) ==
    Only({IF i = 0 THEN NoMatch ELSE codeBlockRegexAt(s, i) :
            i \in {Least({x \in from..Len(s) : codeBlockRegexAt(s, x).ok})}})

\* lastLine.match(/(?:file|filename):\s*([a-zA-Z0-9_./-]+)/i): the leftmost
\* label, a colon, white space, and the longest run of name characters
IsFileLabel(t) == LowerTok(t) \in {"file", "filename", "profile"}
labelHint(line) ==
    LET At(x) == /\ IsFileLabel(line[x])
                 /\ x + 1 <= Len(line) /\ line[x + 1] = ":"
                 /\ RunEnd(line, SkipWs(line, x + 2), IsNameTok) >= SkipWs(line, x + 2)
        i == Least({x \in 1..Len(line) : At(x)})
        p == SkipWs(line, i + 2)
    IN  IF i = 0 THEN NoMatch
        ELSE [ok |-> TRUE, g1 |-> SubSeq(line, p, RunEnd(line, p, IsNameTok))]

\* lastLine.match(/^([a-zA-Z0-9_./-]+):$/)
bareHint(line) ==
    IF /\ Len(line) >= 2
       /\ line[Len(line)] = ":"
       /\ RunEnd(line, 1, IsNameTok) = Len(line) - 1
    THEN [ok |-> TRUE, g1 |-> SubSeq(line, 1, Len(line) - 1)]
    ELSE NoMatch

\* String(fileCounter)
NumTok(n) == CASE n = 1 -> "1" [] n = 2 -> "2" [] n = 3 -> "3" [] n = 4 -> "4"
               [] n = 5 -> "5" [] n = 6 -> "6" [] OTHER -> "many"

\* defaultName with a counter that starts at 0
defaultNameFromZero(lang, fileCounter) ==
    <<"file_", NumTok(fileCounter - 1), ".",
      IF lang = <<"typescript">> \/ lang = <<"ts">> THEN "ts"
      ELSE IF lang = <<"javascript">> \/ lang = <<"js">> THEN "js"
      ELSE "txt">>

\* the template literal file_N.ext of line 787
defaultName(lang, fileCounter) ==
    <<"file_", NumTok(fileCounter), ".",
      IF lang = <<"typescript">> \/ lang = <<"ts">> THEN "ts"
      ELSE IF lang = <<"javascript">> \/ lang = <<"js">> THEN "js"
      ELSE "txt">>

\* the body of the while loop, lines 780-800
fallbackFile(s, m, fileCounter) ==
    LET lang == IF m.g2 = <<>> THEN <<"text">> ELSE m.g2
        precedingText == SplitLines(Trim(SubSeq(s, 1, m.index - 1)))
        lastLine == precedingText[Len(precedingText)]
        nameMatch == IF labelHint(lastLine).ok THEN labelHint(lastLine)
                     ELSE bareHint(lastLine)
    IN  [name     |-> IF nameMatch.ok THEN nameMatch.g1
                      ELSE defaultName(lang, fileCounter),
         language |-> lang,
         content  |-> Trim(m.g3)]

RECURSIVE fallbackLoop(_, _, _)
fallbackLoop(s, from, fileCounter) ==
    Only({IF ~m.ok THEN <<>>
          ELSE <<fallbackFile(s, m, fileCounter)>>
                   \o fallbackLoop(s, m.lastIndex, fileCounter + 1) :
            m \in {codeBlockRegexExec(s, from)}})

\* parseGeneratedContent (src/App.tsx 748-805)
parseGeneratedContent(s) ==
    Only({IF Len(primary) = 0 THEN fallbackLoop(s, 1, 1) ELSE primary :
            primary \in {primaryLoop(s, 1)}})

\* ------------------------------------------------------------------------
\* cleanResponseText (src/App.tsx 807-810)
\* ------------------------------------------------------------------------
\* removeFileBlocks without the g flag: only the first block is removed
removeFirstFileBlock(s) ==
    LET i == IndexOf(s, <<AST, "FILE_START">>, 1)
        r == IF i = 0 THEN 0 ELSE IndexOf(s, FileEndMarker, i + 2)
    IN  IF r = 0 THEN s ELSE SubSeq(s, 1, i - 1) \o From(s, r + 3)

\* text.replace(/\*\*\*FILE_START[\s\S]*?\*\*\*FILE_END\*\*\*/g, '')
RECURSIVE removeFileBlocks(_)
removeFileBlocks(s) ==
    LET i == IndexOf(s, <<AST, "FILE_START">>, 1)
        r == IF i = 0 THEN 0 ELSE IndexOf(s, FileEndMarker, i + 2)
    IN  IF r = 0 THEN s
        ELSE SubSeq(s, 1, i - 1) \o removeFileBlocks(From(s, r + 3))

cleanResponseText(s) == Trim(removeFileBlocks(s))


\* ------------------------------------------------------------------------
\* The response texts of the extractor specification
\* ------------------------------------------------------------------------
None == [some |-> FALSE]
Some(v) == [some |-> TRUE, val |-> v]

\* A response is a concatenation of pieces.  Beside its tokens a piece records
\* what it is: kind, and for a delimited block the name written in its header,
\* the body between the markers, the body without white space and fence
\* wrapper around it (inner) and the extension; for a fenced block the tag,
\* the hint on the line right above the fence (near), the hint on the last
\* non-blank line above it (name) and the trimmed body (inner).
Piece(kind, toks, name, body, inner, ext, near) ==
    [kind |-> kind, toks |-> toks, name |-> name, body |-> body,
     inner |-> inner, ext |-> ext, near |-> near]

Block(name, body, inner, ext) ==
    Piece("block",
          <<AST, "FILE_START", ":", " ">> \o name \o <<AST>> \o body \o FileEndMarker \o <<"\n">>,
          name, body, inner, ext, <<>>)

Fenced(above, tag, body, inner, name, near) ==
    Piece("fenced", above \o <<FENCE>> \o tag \o <<"\n">> \o body \o <<FENCE, "\n">>,
          name, body, inner, tag, near)

Pieces ==
    << \* 1: a block, body on lines of its own
       Block(<<"a", ".", "txt">>, <<"\n", "hello", "\n">>, <<"hello">>, <<"txt">>),
       \* 2: a block with an upper-case extension whose body is wrapped in a fence
       Block(<<"B", ".", "TXT">>, <<"\n", FENCE, "js", "\n", "code", "\n", FENCE, "\n">>,
             <<"code">>, <<"txt">>),
       \* 3: a block whose name has no extension
       Block(<<"Makefile">>, <<" ", "code", " ", "hello", "\n">>,
             <<"code", " ", "hello">>, <<>>),
       \* 4: prose
       Piece("prose", <<"see", " ", "hello", "\n">>, <<>>, <<>>, <<>>, <<>>, <<>>),
       \* 5: a start marker that is never closed (a truncated response)
       Piece("open", <<AST, "FILE_START", ":", " ", "a", ".", "txt", AST, "\n", "code", "\n">>,
             <<>>, <<>>, <<>>, <<>>, <<>>),
       \* 6: an end marker without a start marker
       Piece("stray", FileEndMarker \o <<"\n">>, <<>>, <<>>, <<>>, <<>>, <<>>),
       \* 7: a fenced block under a filename: label
       Fenced(<<"filename", ":", " ", "app", ".", "js", "\n">>, <<"js">>,
              <<"code", "\n">>, <<"code">>, <<"app", ".", "js">>, <<"app", ".", "js">>),
       \* 8: a fenced block without a hint
       Fenced(<<>>, <<"ts">>, <<"code", "\n">>, <<"code">>, <<>>, <<>>),
       \* 9: a fenced block whose bare name: hint is followed by a blank line
       Fenced(<<"app", ".", "py", ":", "\n", "\n">>, <<"py">>,
              <<"hello", "\n">>, <<"hello">>, <<"app", ".", "py">>, <<>>),
       \* 10: a fenced block without a tag
       Fenced(<<"see", "\n">>, <<>>, <<"code", "\n">>, <<"code">>, <<>>, <<>>)
    >>

PieceIds == 1..Len(Pieces)

\* ------------------------------------------------------------------------
\* The extractor specification: a response is composed, then extracted and
\* stripped
\* ------------------------------------------------------------------------
OtherInitExtract ==
    /\ segs = <<>> /\ text = <<>> /\ files = None /\ residual = None
OtherInitCpp == cppLines = <<>> /\ cppJs = None
OtherInitAsm == aFiles = <<>> /\ out = None
OtherInitApp ==
    /\ generatedFiles = <<>> /\ history = <<>> /\ historyIndex = -1
    /\ genState = [isGenerating |-> FALSE, error |-> FALSE]
    /\ inflight = <<>> /\ lastDone = None
OtherInitRun ==
    /\ rPage = "none" /\ rStmts = <<>> /\ rPc = "idle" /\ rRoot = "none"
    /\ rLog = <<>> /\ rTasks = <<>> /\ rFault = None
OtherInitView ==
    /\ vFiles = <<>> /\ previewHtml = <<>> /\ vLogs = <<>>
    /\ frame = [gen |-> 0, todo |-> <<>>] /\ channel = <<>> /\ vOps = 0
    /\ mainView = "preview"
    /\ lastOp = "none"

\* the model writes one more piece of the response
Respond(k) ==
    /\ Len(segs) < MaxSegs
    /\ files = None /\ residual = None
    /\ segs' = Append(segs, k)
    /\ text' = text \o Pieces[k].toks
    /\ UNCHANGED <<files, residual, cppVars, asmVars, appVars, runVars, viewVars>>

\* const files = parseGeneratedContent(fullText)
ParseGeneratedContent ==
    /\ files = None
    /\ files' = Some(parseGeneratedContent(text))
    /\ UNCHANGED <<segs, text, residual, cppVars, asmVars, appVars, runVars, viewVars>>

\* cleanResponseText(result.text)
CleanResponseText ==
    /\ residual = None
    /\ residual' = Some(cleanResponseText(text))
    /\ UNCHANGED <<segs, text, files, cppVars, asmVars, appVars, runVars, viewVars>>

InitExtract == OtherInitExtract /\ OtherInitCpp /\ OtherInitAsm /\ OtherInitApp /\ OtherInitRun /\ OtherInitView

NextExtract ==
    \/ \E k \in PieceIds : Respond(k)
    \/ ParseGeneratedContent
    \/ CleanResponseText

SpecExtract == InitExtract /\ [][NextExtract]_vars


\* ------------------------------------------------------------------------
\* Claims about the extractor
\* ------------------------------------------------------------------------
KindsOf(ss) == {Pieces[ss[i]].kind : i \in 1..Len(ss)}
IsBlockPiece(k) == Pieces[k].kind = "block"
IsFencedPiece(k) == Pieces[k].kind = "fenced"
BlocksOf(ss) == SelectSeq(ss, IsBlockPiece)
FencedOf(ss) == SelectSeq(ss, IsFencedPiece)
\* every marker of the text belongs to a complete block
OnlyWholeBlocks == KindsOf(segs) \subseteq {"block", "prose", "fenced"}
HasMarker(s) == Includes(s, <<AST, "FILE_START">>) \/ Includes(s, FileEndMarker)

\* C1 as claimed: N well-formed blocks give N artifacts in source order, each
\* with the block's name, the trimmed block body as content and the
\* lower-cased extension as language.
C1_AsClaimed ==
    (files.some /\ OnlyWholeBlocks /\ Len(BlocksOf(segs)) >= 1) =>
        LET bs == BlocksOf(segs) IN
        /\ Len(files.val) = Len(bs)
        /\ \A i \in 1..Len(bs) :
              /\ files.val[i].name = Pieces[bs[i]].name
              /\ files.val[i].content = Trim(Pieces[bs[i]].body)
              /\ Pieces[bs[i]].ext # <<>> => files.val[i].language = Pieces[bs[i]].ext

\* C1 (amended): N well-formed blocks give N artifacts in source order, each
\* with the block's name, as content the trimmed block body without the code
\* fence wrapped around it, and as language the lower-cased extension of a
\* name that has one.
C1_ExtractBlocks ==
    (files.some /\ OnlyWholeBlocks /\ Len(BlocksOf(segs)) >= 1) =>
        LET bs == BlocksOf(segs) IN
        /\ Len(files.val) = Len(bs)
        /\ \A i \in 1..Len(bs) :
              /\ files.val[i].name = Pieces[bs[i]].name
              /\ files.val[i].content = Pieces[bs[i]].inner
              /\ Pieces[bs[i]].ext # <<>> => files.val[i].language = Pieces[bs[i]].ext

\* prose, a fence-wrapped block with an upper-case extension, and a plain block
C1_Witness ==
    /\ files.some /\ segs = <<4, 2, 1>>
    /\ Len(files.val) = 2 /\ files.val[1].content = <<"code">>

\* C2 as claimed: for any text the residual of cleanResponseText contains
\* neither the FILE_START marker nor the FILE_END marker.
C2_AsClaimed == residual.some => ~HasMarker(residual.val)

\* C2 (amended): when every marker of the text belongs to a complete block,
\* cleanResponseText removes every block and returns the trimmed surrounding
\* text (of a block piece, the line break after its end marker), which
\* contains neither marker.
C2_StripBlocks ==
    (residual.some /\ OnlyWholeBlocks) =>
        /\ ~HasMarker(residual.val)
        /\ residual.val =
             Trim(Flatten([i \in 1..Len(segs) |->
                    IF Pieces[segs[i]].kind = "block" THEN <<"\n">> ELSE Pieces[segs[i]].toks]))

\* two blocks with prose between them
C2_Witness ==
    /\ residual.some /\ segs = <<1, 4, 2>>
    /\ residual.val = <<"see", " ", "hello">>

\* the texts without a delimited block: no block, and no start marker that a
\* later stray end marker would close
NoDelimitedBlock ==
    /\ "block" \notin KindsOf(segs)
    /\ ~({"open", "stray"} \subseteq KindsOf(segs))

\* file_N.ext of the claim
NameByCounter(tag, n) ==
    <<"file_", NumTok(n), ".",
      IF tag \in {<<"ts">>, <<"typescript">>} THEN "ts"
      ELSE IF tag \in {<<"js">>, <<"javascript">>} THEN "js" ELSE "txt">>

\* C9 as claimed: without a delimited block there is one artifact per fenced
\* block, in order, its language the block's tag, its name the hint on the
\* line right above the block, and file_N.ext when that line has no hint.
C9_AsClaimed ==
    (files.some /\ NoDelimitedBlock) =>
        LET fs == FencedOf(segs) IN
        /\ Len(files.val) = Len(fs)
        /\ \A i \in 1..Len(fs) :
              /\ files.val[i].language = Pieces[fs[i]].ext
              /\ files.val[i].name =
                   IF Pieces[fs[i]].near # <<>> THEN Pieces[fs[i]].near
                   ELSE NameByCounter(Pieces[fs[i]].ext, i)

\* C9 (amended): without a delimited block there is one artifact per fenced
\* block, in order; its language is the block's tag, or text for a block
\* without a tag; its name is the hint on the last non-blank line above the
\* block, and file_N.ext, N the block's 1-based position, without such a hint.
C9_Fallback ==
    (files.some /\ NoDelimitedBlock) =>
        LET fs == FencedOf(segs) IN
        /\ Len(files.val) = Len(fs)
        /\ \A i \in 1..Len(fs) :
              /\ files.val[i].language =
                   IF Pieces[fs[i]].ext = <<>> THEN <<"text">> ELSE Pieces[fs[i]].ext
              /\ files.val[i].content = Pieces[fs[i]].inner
              /\ files.val[i].name =
                   IF Pieces[fs[i]].name # <<>> THEN Pieces[fs[i]].name
                   ELSE NameByCounter(Pieces[fs[i]].ext, i)

\* a hinted block, then an unhinted ts block named by the counter
C9_Witness ==
    /\ files.some /\ segs = <<7, 4, 8>>
    /\ files.val[1].name = <<"app", ".", "js">>
    /\ files.val[2].name = <<"file_", "2", ".", "ts">>

\* C11 as claimed: every artifact of the primary extraction path has as
\* language the lower-cased extension of its name when the name has one, and
\* the default text when the name has no extension (a name without any dot).
C11_LanguageOfName ==
    (files.some /\ OnlyWholeBlocks /\ Len(BlocksOf(segs)) >= 1) =>
        LET bs == BlocksOf(segs) IN
        \A i \in 1..Len(bs) :
            files.val[i].language = IF Pieces[bs[i]].ext # <<>>
                                    THEN Pieces[bs[i]].ext ELSE <<"text">>

\* what line 760 computes for a name without a dot: the whole name, lower-cased
C11_WholeNameWithoutDot ==
    (files.some /\ OnlyWholeBlocks /\ Len(BlocksOf(segs)) >= 1) =>
        LET bs == BlocksOf(segs) IN
        \A i \in 1..Len(bs) :
            Pieces[bs[i]].ext = <<>> =>
                files.val[i].language = LowerCase(Pieces[bs[i]].name)


\* ------------------------------------------------------------------------
\* transpileCppToJs (src/utils/compiler.ts 7-66)
\* ------------------------------------------------------------------------
\* s.split(tok) for a separator of one token
RECURSIVE SplitOn(_, _)
SplitOn(s, tok) ==
    LET n == IndexOf(s, <<tok>>, 1)
    IN  IF n = 0 THEN <<s>>
        ELSE <<SubSeq(s, 1, n - 1)>> \o SplitOn(From(s, n + 1), tok)

\* parts.join(sep)
RECURSIVE Join(_, _)
Join(parts, sep) ==
    IF parts = <<>> THEN <<>>
    ELSE IF Len(parts) = 1 THEN parts[1]
    ELSE parts[1] \o sep \o Join(Tail(parts), sep)

\* s without the tokens of a set: replace(/.../g, '') of a pattern that is
\* one token
RemoveToks(s, drop) == SelectSeq(s, LAMBDA t : t \notin drop)

\* step 1: #include <...>, using namespace std; and return 0; are removed
cppDirectives == {"#include <iostream>", "using namespace std;", "return 0;"}

\* step 2: js.match(/int\s+main\s*\(\)\s*\{([\s\S]*)\}/): from the first
\* int main() { to the last closing brace of the text
cppMainBody(js) ==
    LET i == IndexOf(js, <<"int main() {">>, 1)
        r == LastIndexOfTok(js, "}")
    IN  IF i # 0 /\ r > i THEN SubSeq(js, i + 1, r - 1) ELSE js

\* step 3: the type keywords become let
cppTypeTok(t) ==
    CASE t \in {"int", "long", "float", "double", "char", "string", "bool",
                "auto", "const", "long long"} -> "let"
      [] t = "int main() {" -> "let main() {"
      [] OTHER -> t
cppTypes(js) == [i \in 1..Len(js) |-> cppTypeTok(js[i])]

\* step 5: cin >> var; becomes a prompt, a coercion and an echo of the value
cppIdents == {"x", "y"}
cppPrompt(v) ==
    IF v = "x"
    THEN <<"x = prompt(\"Interactive Input required for 'x':\");", "\n",
           "if(x !== null && !isNaN(Number(x)) && x.trim() !== '') x = Number(x);", "\n",
           "console.log(\"[Input] x =\", x);">>
    ELSE <<"y = prompt(\"Interactive Input required for 'y':\");", "\n",
           "if(y !== null && !isNaN(Number(y)) && y.trim() !== '') y = Number(y);", "\n",
           "console.log(\"[Input] y =\", y);">>

\* one attempt of /cin\s*>>\s*([a-zA-Z0-9_]+)\s*;/ at position i
cinRegexAt(js, i) ==
    IF ~(i <= Len(js) /\ js[i] = "cin") THEN NoMatch
    ELSE LET a == SkipWs(js, i + 1)
             b == SkipWs(js, a + 1)
             c == SkipWs(js, b + 1)
         IN  IF /\ c <= Len(js)
                /\ js[a] = ">>" /\ js[b] \in cppIdents /\ js[c] = ";"
             THEN [ok |-> TRUE, g1 |-> js[b], lastIndex |-> c + 1]
             ELSE NoMatch

RECURSIVE cppCin(_)
cppCin(js) ==
    LET hits == {i \in 1..Len(js) : cinRegexAt(js, i).ok}
    IN  IF hits = {} THEN js
        ELSE LET i == CHOOSE x \in hits : \A y \in hits : x <= y
                 m == cinRegexAt(js, i)
             IN  SubSeq(js, 1, i - 1) \o cppPrompt(m.g1) \o cppCin(From(js, m.lastIndex))

\* content.replace(/^cout\s*<<\s*/, '')
stripCout(content) ==
    LET a == SkipWs(content, 2)
    IN  IF content # <<>> /\ content[1] = "cout" /\ a <= Len(content) /\ content[a] = "<<"
        THEN From(content, SkipWs(content, a + 1)) ELSE content

\* content.replace(/;$/, '')
stripSemicolon(content) ==
    IF content # <<>> /\ content[Len(content)] = ";"
    THEN SubSeq(content, 1, Len(content) - 1) ELSE content

\* step 6, the callback of lines.map (lines 37-50)
cppCoutLine(line) ==
    IF Trim(line) # <<>> /\ Head(Trim(line)) = "cout"
    THEN LET content == stripSemicolon(stripCout(Trim(line)))
             parts == [i \in 1..Len(SplitOn(content, "<<")) |->
                          Trim(SplitOn(content, "<<")[i])]
             jsParts == [i \in 1..Len(parts) |->
                            IF parts[i] = <<"endl">> THEN <<"\"\\n\"">> ELSE parts[i]]
         IN  <<"console.log(">> \o Join(jsParts, <<", ">>) \o <<");">>
    ELSE line

\* steps 1 to 6: the rewritten body
cppBody(code) ==
    LET js1 == RemoveToks(code, cppDirectives)
        js2 == cppMainBody(js1)
        js3 == cppTypes(js2)
        js4 == RemoveToks(js3, {"std::"})
        js5 == cppCin(js4)
        lines == SplitLines(js5)
        processedLines == [i \in 1..Len(lines) |-> cppCoutLine(lines[i])]
    IN  Join(processedLines, <<"\n">>)

\* the template literal of lines 53-65 around the rewritten body
transpileCppToJs(code) ==
    <<"console.log(\"C++ Interactive Simulation Started\");", "\n",
      "try {", "\n", "(async function() {", "\n">>
    \o cppBody(code) \o
    <<"\n", "})();", "\n",
      "console.log(\"Process finished with exit code 0\");", "\n",
      "} catch (e) {", "\n",
      "console.error(\"Runtime Error:\", e.message);", "\n", "}">>

\* ------------------------------------------------------------------------
\* The native simulator specification: a C++ main function is written line
\* by line, then transpiled
\* ------------------------------------------------------------------------
\* A line of the body, and the cout statements it holds: each statement is
\* the sequence of its chain segments.
CppLine(toks, couts) == [toks |-> toks, couts |-> couts]

CppLines ==
    << \* 1: cout << "Hi" << endl;
       CppLine(<<" ", "cout", " ", "<<", " ", "\"Hi\"", " ", "<<", " ", "endl", ";">>,
               << <<<<"\"Hi\"">>, <<"endl">>>> >>),
       \* 2: cout<<x<<"Hi";
       CppLine(<<"cout", "<<", "x", "<<", "\"Hi\"", ";">>,
               << <<<<"x">>, <<"\"Hi\"">>>> >>),
       \* 3: int x = 1;
       CppLine(<<" ", "int", " ", "x", " ", "=", " ", "1", ";">>, <<>>),
       \* 4: cin >> x;
       CppLine(<<" ", "cin", " ", ">>", " ", "x", ";">>, <<>>),
       \* 5: std::cout << x << std::endl;
       CppLine(<<"std::", "cout", " ", "<<", " ", "x", " ", "<<", " ", "std::", "endl", ";">>,
               << <<<<"x">>, <<"endl">>>> >>),
       \* 6: if (x) cout << "Hi" << endl;
       CppLine(<<"if (x)", " ", "cout", " ", "<<", " ", "\"Hi\"", " ", "<<", " ", "endl", ";">>,
               << <<<<"\"Hi\"">>, <<"endl">>>> >>),
       \* 7: cout << "Hi"; cout << x << endl;
       CppLine(<<"cout", " ", "<<", " ", "\"Hi\"", ";", " ",
                 "cout", " ", "<<", " ", "x", " ", "<<", " ", "endl", ";">>,
               << <<<<"\"Hi\"">>>>, <<<<"x">>, <<"endl">>>> >>)
    >>

CppLineIds == 1..Len(CppLines)

\* the artifact content: the usual frame around the lines of the body
cppSource(ls) ==
    <<"#include <iostream>", "\n", "using namespace std;", "\n", "int main() {", "\n">>
    \o Flatten([i \in 1..Len(ls) |-> CppLines[ls[i]].toks \o <<"\n">>])
    \o <<" ", "return 0;", "\n", "}", "\n">>

WriteCppLine(k) ==
    /\ Len(cppLines) < MaxCppLines
    /\ cppJs = None
    /\ cppLines' = Append(cppLines, k)
    /\ UNCHANGED <<cppJs, extractVars, asmVars, appVars, runVars, viewVars>>

\* return transpileCppToJs(file.content)
TranspileCppToJs ==
    /\ cppJs = None
    /\ cppJs' = Some(transpileCppToJs(cppSource(cppLines)))
    /\ UNCHANGED <<cppLines, extractVars, asmVars, appVars, runVars, viewVars>>

InitCpp == OtherInitExtract /\ OtherInitCpp /\ OtherInitAsm /\ OtherInitApp /\ OtherInitRun /\ OtherInitView

NextCpp ==
    \/ \E k \in CppLineIds : WriteCppLine(k)
    \/ TranspileCppToJs

SpecCpp == InitCpp /\ [][NextCpp]_vars

\* ------------------------------------------------------------------------
\* Claim about the native simulator
\* ------------------------------------------------------------------------
\* the console write the claim asks for: the segments in order, endl as "\n"
ConsoleWriteOf(stmt) ==
    <<"console.log(">>
    \o Join([i \in 1..Len(stmt) |-> IF stmt[i] = <<"endl">> THEN <<"\"\\n\"">> ELSE stmt[i]],
            <<", ">>)
    \o <<");">>

\* the cout statements of the program, in source order
CoutStatements(ls) == Flatten([i \in 1..Len(ls) |-> CppLines[ls[i]].couts])

\* the console writes of the rewritten body: its lines that call console.log
\* on something else than the echo of an input
IsConsoleWrite(line) == line # <<>> /\ Head(line) = "console.log("
ConsoleWrites(js) == SelectSeq(SplitLines(js), IsConsoleWrite)

\* C8: every cout statement is rewritten into exactly one console write whose
\* operands are the chain segments in order, endl becoming a newline, and no
\* cout is left behind.
C8_EveryCoutRewritten ==
    cppJs.some =>
        LET body == cppBody(cppSource(cppLines))
            stmts == CoutStatements(cppLines)
        IN  /\ ConsoleWrites(body) = [i \in 1..Len(stmts) |-> ConsoleWriteOf(stmts[i])]
            /\ ~Includes(cppJs.val, <<"cout">>)

\* C8, the example of the claim: cout << "Hi" << endl; alone in main becomes
\* one console write of "Hi" and a newline.
C8_HiExample ==
    (cppJs.some /\ cppLines = <<1>>) =>
        /\ ConsoleWrites(cppBody(cppSource(cppLines)))
             = << <<"console.log(", "\"Hi\"", ", ", "\"\\n\"", ");">> >>
        /\ Includes(cppJs.val, <<"console.log(", "\"Hi\"", ", ", "\"\\n\"", ");">>)

C8_HiWitness == cppJs.some /\ cppLines = <<1>>


\* ------------------------------------------------------------------------
\* assemblePreview: file names (src/utils/compiler.ts 108-116)
\* ------------------------------------------------------------------------
File(name, content) == [name |-> name, language |-> <<"text">>, content |-> content]

\* name.match(/\.(e1|e2|...)$/), with the i flag when fold is TRUE
HasExt(name, exts, fold) ==
    /\ Len(name) >= 2
    /\ name[Len(name) - 1] = "."
    /\ (IF fold THEN LowerTok(name[Len(name)]) ELSE name[Len(name)]) \in exts

jsExts == {"js", "jsx", "ts", "tsx"}
nativeExts == {"cpp", "c", "py", "java", "rs", "go", "php"}

\* f.name.toLowerCase() === 'preview.html'
isPreviewHtml(f) == LowerCase(f.name) = <<"preview", ".", "html">>
\* f.name.endsWith('.html') && f.name !== 'preview.html'
isHtml(f) == EndsWith(f.name, <<".", "html">>) /\ f.name # <<"preview", ".", "html">>
isCss(f) == EndsWith(f.name, <<".", "css">>)
isJs(f) == HasExt(f.name, jsExts, FALSE)
\* the C-family extensions only, which puts them before the other languages
isCFamilyFile(f) == HasExt(f.name, {"cpp", "c"}, TRUE)
\* f.name.match(/\.(cpp|c|py|java|rs|go|php)$/i), line 114
isNativeFile(f) == HasExt(f.name, nativeExts, TRUE)
isLiquid(f) == EndsWith(f.name, <<".", "liquid">>)

\* Array.prototype.find: the first element satisfying P, None for undefined
Find(fs, P(_)) ==
    LET hits == {i \in 1..Len(fs) : P(fs[i])}
    IN  IF hits = {} THEN None
        ELSE Some(fs[CHOOSE i \in hits : \A j \in hits : i <= j])

\* Array.prototype.filter
Filter(fs, P(_)) == SelectSeq(fs, P)

\* Array.prototype.some
SomeFile(fs, P(_)) == \E i \in 1..Len(fs) : P(fs[i])

\* s.includes(needle) for a needle that lies inside one token
IncludesAny(s, toks) == \E str \in {s} : \E i \in 1..Len(str) : str[i] \in toks

\* ------------------------------------------------------------------------
\* String.prototype.replace(pattern: string, replacement: string)
\* ------------------------------------------------------------------------
\* The replacement patterns of a replacement string: $$ is a dollar sign, $&
\* the matched text, $` the text before the match and $' the text after it.
RECURSIVE ExpandReplacement(_, _, _, _)
ExpandReplacement(repl, before, matched, after) ==
    IF repl = <<>> THEN <<>>
    ELSE (CASE Head(repl) = "$$" -> <<"$">>
            [] Head(repl) = "$&" -> matched
            [] Head(repl) = "$BEFORE" -> before
            [] Head(repl) = "$'" -> after
            [] OTHER -> <<Head(repl)>>)
         \o ExpandReplacement(Tail(repl), before, matched, after)

\* the first occurrence of pat is replaced; without one s is returned
ReplaceFirst(s, pat, repl) ==
    Only({LET i == IndexOf(str, pat, 1)
              before == SubSeq(str, 1, i - 1)
              after == From(str, i + Len(pat))
          IN  IF i = 0 THEN str
              ELSE before \o ExpandReplacement(repl, before, pat, after) \o after :
            str \in {s}})

\* ------------------------------------------------------------------------
\* simulateNativeLanguage (src/utils/compiler.ts 71-100)
\* ------------------------------------------------------------------------
\* the text between the quotes of a string literal
StringBody(t) ==
    CASE t = "\"Hi\"" -> <<"Hi">>
      [] t = "'Hi'" -> <<"Hi">>
      [] t = "\"\"" -> <<>>
      [] OTHER -> <<t>>
IsDoubleQuoted(t) == t \in {"\"Hi\"", "\"\""}
IsQuotedLiteral(t) == t \in {"\"Hi\"", "'Hi'", "\"\""}

\* addLog: console.log("msg");
addLog(msg) == <<"console.log(\"">> \o msg \o <<"\");">>

\* the matches of a print pattern: an opening token of the call, white space,
\* a literal, and for closed patterns white space and the closing parenthesis
RECURSIVE printMatches(_, _, _, _)
printMatches(s, opens, IsLit(_), closed) ==
    LET At(i) == LET a == SkipWs(s, i + 1)
                     b == SkipWs(s, a + 1)
                 IN  /\ s[i] \in opens
                     /\ a <= Len(s) /\ IsLit(s[a])
                     /\ closed => (b <= Len(s) /\ s[b] = ")")
        hits == {i \in 1..Len(s) : At(i)}
    IN  IF hits = {} THEN <<>>
        ELSE LET i == CHOOSE x \in hits : \A y \in hits : x <= y
                 a == SkipWs(s, i + 1)
             IN  <<addLog(StringBody(s[a]))>>
                   \o printMatches(From(s, IF closed THEN SkipWs(s, a + 1) + 1 ELSE a + 1),
                                   opens, IsLit, closed)

simulateNativeLanguage(file) ==
    IF HasExt(file.name, {"cpp", "c", "h", "hpp"}, TRUE)
    THEN transpileCppToJs(file.content)
    ELSE LET logs ==
               IF EndsWith(file.name, <<".", "py">>)
               THEN printMatches(file.content, {"print("}, IsQuotedLiteral, TRUE)
               ELSE IF EndsWith(file.name, <<".", "java">>)
               THEN printMatches(file.content,
                                 {"System.out.println(", "System.out.print("},
                                 IsDoubleQuoted, TRUE)
               ELSE IF EndsWith(file.name, <<".", "go">>)
               THEN printMatches(file.content,
                                 {"fmt.Print(", "fmt.Println(", "fmt.Printf("},
                                 IsDoubleQuoted, FALSE)
               ELSE <<addLog(<<"[System] Compiled ">> \o file.name \o <<" successfully.">>)>>
         IN  Join(logs, <<"\n">>)


\* ------------------------------------------------------------------------
\* assemblePreview: the console hook and the base document
\* (src/utils/compiler.ts 126-177, 199-295)
\* ------------------------------------------------------------------------
consoleHook == <<"\n", "<script>", "CONSOLE_HOOK", "</script>">>

\* the document returned on the native path, lines 181-196
nativeDocument(simulationScript) ==
    <<"<!DOCTYPE html>", "<html>", "<head>", "<meta charset>">>
    \o consoleHook
    \o <<"<style>", "NATIVE_CSS", "</style>", "</head>", "<body>",
         "<script>", "setTimeout(() => {">>
    \o simulationScript
    \o <<"}, 500);", "</script>", "</body>", "</html>">>

\* the synthesized shell with the empty root element, lines 267-294
rootShell ==
    <<"<!DOCTYPE html>", "<html lang>", "<head>", "<meta charset>",
      "<title>Preview</title>", "<style>", "SHELL_CSS", "</style>", "</head>",
      "<body>", "<div id=\"root\">", "</div>", "</body>", "</html>">>

\* css = cssFiles.map(f => comment + content).join('\n'), line 200
cssOf(cssFiles) ==
    Join([i \in 1..Len(cssFiles) |->
            <<"/* ">> \o cssFiles[i].name \o <<" */", "\n">> \o cssFiles[i].content],
         <<"\n">>)

\* replace(/open[\s\S]*?close/g, ''): every region from an opening tag to the
\* nearest closing tag is removed
RECURSIVE removeRegions(_, _, _)
removeRegions(s, open, close) ==
    LET i == IndexOf(s, <<open>>, 1)
        r == IF i = 0 THEN 0 ELSE IndexOf(s, <<close>>, i + 1)
    IN  IF r = 0 THEN s
        ELSE SubSeq(s, 1, i - 1) \o removeRegions(From(s, r + 1), open, close)

\* match(/open([\s\S]*?)close/): the body of the first region
firstRegion(s, open, close) ==
    LET i == IndexOf(s, <<open>>, 1)
        r == IF i = 0 THEN 0 ELSE IndexOf(s, <<close>>, i + 1)
    IN  IF r = 0 THEN NoMatch ELSE [ok |-> TRUE, g1 |-> SubSeq(s, i + 1, r - 1)]

\* the double-brace expressions and logic tags of a template, by the pattern
\* of lines 231-239 that rewrites them
liquidSectionImage == {"{{ section.settings.image | img_url: 'large' }}"}
liquidImage == {"{{ product.image | img_url }}"}
liquidSetting == {"{{ section.settings.title }}"}
liquidExpression == {"{{ product.title }}"}
liquidLogicTag ==
    {"{% if x %}", "{% endif %}", "{% schema %}", "{% endschema %}",
     "{% stylesheet %}", "{% endstylesheet %}", "{% javascript %}",
     "{% endjavascript %}"}

\* a tag whose text holds a percent sign: [^%]* of line 239 stops at that sign
\* and %} does not follow it, so the pattern does not match the tag
liquidTagWithPercent == {"{% assign width = '100%' %}"}

liquidTok(t) ==
    CASE t \in liquidSectionImage -> <<"https://placehold.co/600x400?text=Section+Image">>
      [] t \in liquidImage -> <<"https://placehold.co/600x400?text=Image">>
      [] t \in liquidSetting ->
           <<"<span data-liquid=\"title \">", "[Setting: title ]", "</span>">>
      [] t \in liquidExpression -> <<"<!-- product.title  -->">>
      [] t \in liquidLogicTag -> <<>>
      [] t \in liquidTagWithPercent -> <<t>>
      [] OTHER -> <<t>>

\* the templating renderer, lines 209-265: [html, css] with css the text
\* appended to the aggregated stylesheet
renderLiquid(liquidFile) ==
    LET c1 == removeRegions(liquidFile.content, "{% schema %}", "{% endschema %}")
        styleMatch == firstRegion(c1, "{% stylesheet %}", "{% endstylesheet %}")
        c2 == IF styleMatch.ok
              THEN removeRegions(c1, "{% stylesheet %}", "{% endstylesheet %}") ELSE c1
        jsMatch == firstRegion(c2, "{% javascript %}", "{% endjavascript %}")
        liquidJs == IF jsMatch.ok THEN jsMatch.g1 ELSE <<>>
        c3 == IF jsMatch.ok
              THEN removeRegions(c2, "{% javascript %}", "{% endjavascript %}") ELSE c2
        liquidContent == Flatten([i \in 1..Len(c3) |-> liquidTok(c3[i])])
    IN  [html |-> <<"<!DOCTYPE html>", "<html lang>", "<head>", "<meta charset>",
                    "<title>Liquid Preview</title>", "<style>", "SHELL_CSS", "</style>",
                    "</head>", "<body>">>
                  \o liquidContent
                  \o <<"<script>">> \o liquidJs \o <<"</script>", "</body>", "</html>">>,
         css  |-> IF styleMatch.ok
                  THEN <<"\n", "/* Liquid Stylesheet */", "\n">> \o styleMatch.g1
                  ELSE <<>>]

\* the needles of line 122: import React, react-dom, from "react", from 'react'
hasReactSignature(content) ==
    \/ \E i \in 1..(Len(content) - 1) :
          content[i] = "import " /\ content[i + 1] \in {"React", "ReactDOM"}
    \/ IncludesAny(content, {"'react-dom'", "'react-dom/client'", "\"react-dom\""})
    \/ \E i \in 1..(Len(content) - 1) :
          content[i] = " from " /\ content[i + 1] \in {"'react'", "\"react\""}

isReactProject(fs) == \E i \in 1..Len(fs) : isJs(fs[i]) /\ hasReactSignature(fs[i].content)

\* isNativeProject with a style file also ruling the native path out
isNativeProjectNoStyle(fs) ==
    /\ ~Find(fs, isPreviewHtml).some
    /\ ~Find(fs, isHtml).some
    /\ Len(Filter(fs, isJs)) = 0
    /\ Len(Filter(fs, isCss)) = 0
    /\ Find(fs, isNativeFile).some

\* line 118
isNativeProject(fs) ==
    /\ ~Find(fs, isPreviewHtml).some
    /\ ~Find(fs, isHtml).some
    /\ Len(Filter(fs, isJs)) = 0
    /\ Find(fs, isNativeFile).some

\* file.content of a file that find returned: reading it from undefined
\* throws a TypeError
TypeError == <<"TypeError">>
contentOf(found) == IF found.some THEN found.val.content ELSE TypeError

\* baseDocument with the last branch reading the markup file unguarded
baseDocumentUnguarded(fs) ==
    LET previewHtmlFile == Find(fs, isPreviewHtml)
        htmlFile == Find(fs, isHtml)
    IN  IF previewHtmlFile.some
        THEN [source |-> "preview", html |-> contentOf(previewHtmlFile), css |-> <<>>]
        ELSE [source |-> "markup", html |-> contentOf(htmlFile), css |-> <<>>]

\* baseDocument with the markup file looked at before the preview document
baseDocumentMarkupFirst(fs) ==
    LET previewHtmlFile == Find(fs, isPreviewHtml)
        htmlFile == Find(fs, isHtml)
        liquidFile == Find(fs, isLiquid)
    IN  IF htmlFile.some
        THEN [source |-> "markup", html |-> contentOf(htmlFile), css |-> <<>>]
        ELSE IF previewHtmlFile.some
        THEN [source |-> "preview", html |-> contentOf(previewHtmlFile), css |-> <<>>]
        ELSE IF liquidFile.some /\ ~isReactProject(fs)
        THEN [source |-> "templating"] @@ renderLiquid(liquidFile.val)
        ELSE [source |-> "shell", html |-> rootShell, css |-> <<>>]

\* baseDocument with the templating renderer also used for a framework set
baseDocumentLiquidAlways(fs) ==
    LET previewHtmlFile == Find(fs, isPreviewHtml)
        htmlFile == Find(fs, isHtml)
        liquidFile == Find(fs, isLiquid)
    IN  IF previewHtmlFile.some
        THEN [source |-> "preview", html |-> contentOf(previewHtmlFile), css |-> <<>>]
        ELSE IF htmlFile.some
        THEN [source |-> "markup", html |-> contentOf(htmlFile), css |-> <<>>]
        ELSE IF liquidFile.some
        THEN [source |-> "templating"] @@ renderLiquid(liquidFile.val)
        ELSE [source |-> "shell", html |-> rootShell, css |-> <<>>]

\* step 3, HTML scaffolding, lines 203-295: the base document, where it came
\* from, and the text the templating renderer adds to the stylesheet
baseDocument(fs) ==
    LET previewHtmlFile == Find(fs, isPreviewHtml)
        htmlFile == Find(fs, isHtml)
        liquidFile == Find(fs, isLiquid)
    IN  IF previewHtmlFile.some
        THEN [source |-> "preview", html |-> contentOf(previewHtmlFile), css |-> <<>>]
        ELSE IF htmlFile.some
        THEN [source |-> "markup", html |-> contentOf(htmlFile), css |-> <<>>]
        ELSE IF liquidFile.some /\ ~isReactProject(fs)
        THEN [source |-> "templating"] @@ renderLiquid(liquidFile.val)
        ELSE [source |-> "shell", html |-> rootShell, css |-> <<>>]

\* Inject CSS, lines 298-304
injectCss(html, css) ==
    IF css = <<>> THEN html
    ELSE IF Includes(html, <<"</head>">>)
    THEN ReplaceFirst(html, <<"</head>">>, <<"<style>">> \o css \o <<"</style>", "</head>">>)
    ELSE ReplaceFirst(html, <<"<body>">>,
                      <<"<head>", "<style>">> \o css \o <<"</style>", "</head>", "<body>">>)


\* ------------------------------------------------------------------------
\* assemblePreview: framework linking (src/utils/compiler.ts 307-473)
\* ------------------------------------------------------------------------
\* getScore, lines 369-375; the patterns carry the i flag and are not
\* anchored at the start of the name
getScore(name) ==
    LET n == Len(name)
        stem == IF n >= 3 THEN LowerTok(name[n - 2]) ELSE ""
        scriptExt == n >= 3 /\ name[n - 1] = "." /\ LowerTok(name[n]) \in jsExts
    IN  IF scriptExt /\ stem \in {"index", "main"} THEN 100
        ELSE IF scriptExt /\ stem = "app" THEN 50
        ELSE IF \E i \in 1..(n - 1) :
                   LowerTok(name[i]) \in {"components", "component"} /\ name[i + 1] = "/"
        THEN 10
        ELSE 0

\* Array.prototype.sort with the comparator of line 376: a stable sort by
\* ascending score
RECURSIVE insertByScore(_, _)
insertByScore(sorted, f) ==
    IF sorted = <<>> THEN <<f>>
    ELSE IF getScore(sorted[Len(sorted)].name) <= getScore(f.name)
    THEN Append(sorted, f)
    ELSE Append(insertByScore(SubSeq(sorted, 1, Len(sorted) - 1), f), sorted[Len(sorted)])

\* jsFiles left in extraction order, without the sort of line 368
keepExtractionOrder(fs) == fs

RECURSIVE sortByScore(_)
sortByScore(fs) ==
    IF fs = <<>> THEN <<>>
    ELSE insertByScore(sortByScore(SubSeq(fs, 1, Len(fs) - 1)), fs[Len(fs)])

\* the quoted module paths
localPaths == {"'./App'", "'./style.css'"}
externalPaths == {"'react'", "\"react\"", "'react-dom/client'", "'lodash'", "'me'"}
IsPathTok(t) == t \in localPaths \cup externalPaths
\* path.startsWith('.') || path.startsWith('/')
IsLocalPath(t) == t \in localPaths

\* one attempt of importRegex at position i:
\*   import\s+(?:[\s\S]*?)\s+from\s+['"](.*?)['"];?
\* the lazy middle runs to the first from that a quoted path follows
importRegexAt(s, i) ==
    IF ~(i <= Len(s) /\ s[i] = "import ") THEN NoMatch
    ELSE LET froms == {j \in (i + 1)..(Len(s) - 1) :
                          s[j] = " from " /\ IsPathTok(s[j + 1])}
         IN  IF froms = {} THEN NoMatch
             ELSE LET j == CHOOSE x \in froms : \A y \in froms : x <= y
                      e == IF j + 2 <= Len(s) /\ s[j + 2] = ";" THEN j + 2 ELSE j + 1
                  IN  [ok |-> TRUE, index |-> i, match |-> SubSeq(s, i, e),
                       g1 |-> s[j + 1], lastIndex |-> e + 1]

\* one attempt of sideEffectImportRegex at position i: import\s+['"](.*?)['"];?
sideEffectImportRegexAt(s, i) ==
    IF ~(i + 1 <= Len(s) /\ s[i] = "import " /\ IsPathTok(s[i + 1])) THEN NoMatch
    ELSE LET e == IF i + 2 <= Len(s) /\ s[i + 2] = ";" THEN i + 2 ELSE i + 1
         IN  [ok |-> TRUE, index |-> i, match |-> SubSeq(s, i, e),
              g1 |-> s[i + 1], lastIndex |-> e + 1]

\* the match of importRegex (named TRUE) or sideEffectImportRegex at i
importMatchAt(s, i, named) ==
    IF named THEN importRegexAt(s, i) ELSE sideEffectImportRegexAt(s, i)

\* content.replace(regex, callback) of lines 398-415: every match is removed;
\* the matches with an external path are collected, in order
RECURSIVE stripImports(_, _)
stripImports(s, named) ==
    Only({IF i = 0 THEN [content |-> s, external |-> <<>>]
          ELSE Only({[content  |-> SubSeq(s, 1, i - 1) \o rest.content,
                      external |-> (IF IsLocalPath(m.g1) THEN <<>> ELSE <<m.match>>)
                                     \o rest.external] :
                       m \in {importMatchAt(s, i, named)},
                       rest \in {stripImports(From(s, importMatchAt(s, i, named).lastIndex),
                                              named)}}) :
            i \in {Least({x \in 1..Len(s) : importMatchAt(s, x, named).ok})}})

\* the callback of sortedJs.map, lines 383-422, for one file
processJs(f) ==
    Only({Only({[part     |-> <<"// --- ">> \o f.name \o <<" ---", "\n">>
                                \o RemoveToks(b.content, {"export default ", "export "}),
                 external |-> a.external \o b.external,
                 entry    |-> IncludesAny(f.content,
                                  {"createRoot(", "{ createRoot }", "ReactDOM.render("})] :
                  b \in {stripImports(a.content, FALSE)}}) :
            a \in {stripImports(f.content, TRUE)}})

\* externalImports.add over a sequence of statements: a Set keeps the first
\* occurrence of each, in insertion order
RECURSIVE addAll(_, _)
addAll(set, xs) ==
    IF xs = <<>> THEN set
    ELSE addAll(IF \E i \in 1..Len(set) : set[i] = Head(xs) THEN set
                ELSE Append(set, Head(xs)),
                Tail(xs))

\* p.includes('function App') || p.includes('class App') || p.includes('const App')
declaresApp(part) == IncludesAny(part, {"function App", "class App", "const App"})

mountCall ==
    <<"if (typeof App !== 'undefined') {",
      "const root = ReactDOM.createRoot(document.getElementById('root'));",
      "root.render(React.createElement(App));", "}">>

\* Auto-mount if missing, lines 434-442
mountScript(processed) ==
    IF /\ ~(\E i \in 1..Len(processed) : processed[i].entry)
       /\ \E i \in 1..Len(processed) : declaresApp(processed[i].part)
    THEN mountCall ELSE <<>>

\* the linked script, lines 444-459
appScript(jsFiles) ==
    Only({LET externalImports ==
                  addAll(<<>>, Flatten([i \in 1..Len(processed) |-> processed[i].external]))
          IN  <<"<script type=\"text/babel\" data-type=\"module\">", "\n">>
              \o Join(externalImports, <<"\n">>)
              \o <<"\n", "PROCESS_SHIM", "\n", "try {", "\n">>
              \o Join([i \in 1..Len(processed) |-> processed[i].part], <<"\n", "\n">>)
              \o <<"\n">> \o mountScript(processed)
              \o <<"\n", "} catch (err) {", "SCRIPT_ERROR_PANEL", "}", "\n", "</script>">> :
            \* sortedJs.map(...), lines 368-422
            processed \in {[i \in 1..Len(sortedJs) |-> processJs(sortedJs[i])] :
                             sortedJs \in {sortByScore(jsFiles)}}})

\* lines 353-364 and 461: what goes into the head on the framework path
headScripts(html, jsFiles) ==
    consoleHook \o <<"\n">>
    \o (IF IncludesAny(html, {"<script src=\"https://cdn.tailwindcss.com\">"}) THEN <<>>
        ELSE <<"<script src=\"https://cdn.tailwindcss.com\">", "</script>">>)
    \o <<"\n", "<script type=\"importmap\">", "IMPORT_MAP", "</script>", "\n">>
    \o (IF \E i \in 1..Len(jsFiles) : IncludesAny(jsFiles[i].content, {"'react-slick'"})
        THEN <<"<link slick.min.css>", "\n", "<link slick-theme.min.css>", "\n">>
        ELSE <<>>)

\* React / JS assembly on the framework path, lines 461-473
linkReact(html, jsFiles) ==
    Only({IF Includes(withHead, <<"</body>">>)
          THEN ReplaceFirst(withHead, <<"</body>">>, bodyScripts \o <<"\n", "</body>">>)
          ELSE withHead \o bodyScripts :
            withHead \in
                {IF Includes(html, <<"</head>">>)
                 THEN ReplaceFirst(html, <<"</head>">>, head \o <<"\n", "</head>">>)
                 ELSE <<"<head>">> \o head \o <<"</head>">> \o html :
                   head \in {headScripts(html, jsFiles)}},
            bodyScripts \in
                {<<"<script babel.min.js>", "</script>", "\n">> \o appScript(jsFiles)}})

\* Vanilla JS, lines 476-490
linkVanilla(html, jsFiles) ==
    Only({LET scriptContent ==
                  Join([i \in 1..Len(jsFiles) |-> jsFiles[i].content], <<"\n">>)
              script == <<"<script>">> \o scriptContent \o <<"</script>">>
          IN  IF Len(jsFiles) = 0 THEN withHook
              ELSE IF Includes(withHook, <<"</body>">>)
              THEN ReplaceFirst(withHook, <<"</body>">>, script \o <<"</body>">>)
              ELSE withHook \o script :
            withHook \in
                {IF Includes(html, <<"<head>">>)
                 THEN ReplaceFirst(html, <<"<head>">>, <<"<head>">> \o consoleHook)
                 ELSE consoleHook \o html}})

\* assemblePreview (src/utils/compiler.ts 102-494): the returned document,
\* with the decisions taken on the way
assemblePreview(fs) ==
    Only({LET jsFiles == Filter(fs, isJs)
              nativeFile == Find(fs, isNativeFile)
              isNative == isNativeProject(fs)
          IN  IF isNative /\ nativeFile.some
              THEN [html |-> nativeDocument(simulateNativeLanguage(nativeFile.val)),
                    threw |-> FALSE, isNative |-> TRUE, isReact |-> isReact,
                    source |-> "none", base |-> <<>>]
              ELSE Only({[html |-> IF isReact THEN linkReact(html, jsFiles)
                                   ELSE linkVanilla(html, jsFiles),
                          threw |-> base.html = TypeError,
                          isNative |-> FALSE, isReact |-> isReact,
                          source |-> base.source, base |-> base.html] :
                            html \in {injectCss(base.html,
                                                cssOf(Filter(fs, isCss)) \o base.css)}}) :
            base \in {baseDocument(fs)}, isReact \in {isReactProject(fs)}})


\* ------------------------------------------------------------------------
\* The assembler run on artifact lists
\* ------------------------------------------------------------------------
\* The artifacts the lists are made of. name and content are what
\* assemblePreview reads; the other fields say what the artifact is: its
\* family, whether it carries a framework import signature, an explicit
\* root-mount call or a top-level binding named App, and a token found in
\* its content only.
Artifact(name, content, role, framework, mounts, app, mark) ==
    [name |-> name, content |-> content, role |-> role, framework |-> framework,
     mounts |-> mounts, app |-> app, mark |-> mark]

Artifacts ==
    << Artifact(<<"main", ".", "cpp">>, cppSource(<<1>>),
                "native", FALSE, FALSE, FALSE, "int main() {"),
       Artifact(<<"main", ".", "py">>, <<"print(", "\"Hi\"", ")">>,
                "native", FALSE, FALSE, FALSE, "print("),
       Artifact(<<"style", ".", "css">>, <<"h1 { color: blue; }">>,
                "style", FALSE, FALSE, FALSE, "h1 { color: blue; }"),
       Artifact(<<"theme", ".", "css">>, <<"body { margin: 0; }">>,
                "style", FALSE, FALSE, FALSE, "body { margin: 0; }"),
       Artifact(<<"index", ".", "html">>,
                <<"<html>", "<head>", "<title>Index</title>", "</head>", "<body>",
                  "<h1>Index</h1>", "</body>", "</html>">>,
                "markup", FALSE, FALSE, FALSE, "<h1>Index</h1>"),
       Artifact(<<"preview", ".", "html">>,
                <<"<html>", "<head>", "</head>", "<body>", "<h1>Preview</h1>",
                  "</body>", "</html>">>,
                "preview", FALSE, FALSE, FALSE, "<h1>Preview</h1>"),
       Artifact(<<"Preview", ".", "html">>,
                <<"<body>", "<h1>Second preview</h1>", "</body>">>,
                "preview", FALSE, FALSE, FALSE, "<h1>Second preview</h1>"),
       Artifact(<<"page", ".", "html">>,
                <<"<html>", "<head>", "<script>", "console.log('early');", "</script>",
                  "</head>", "<body>", "<div id=\"root\">", "</div>", "</body>", "</html>">>,
                "markup", FALSE, FALSE, FALSE, "console.log('early');"),
       Artifact(<<"fragment", ".", "html">>,
                <<"<div id=\"app\">", "<p>Fragment</p>", "</div>">>,
                "markup", FALSE, FALSE, FALSE, "<p>Fragment</p>"),
       Artifact(<<"app", ".", "jsx">>,
                <<"import ", "React", " from ", "'react'", ";", "\n",
                  "export default ", "function App", "() { return <h1>Hi</h1>; }">>,
                "script", TRUE, FALSE, TRUE, "() { return <h1>Hi</h1>; }"),
       Artifact(<<"index", ".", "jsx">>,
                <<"import ", "ReactDOM", " from ", "'react-dom/client'", ";", "\n",
                  "import ", "App", " from ", "'./App'", ";", "\n",
                  "ReactDOM.", "createRoot(", "document.getElementById('root')",
                  ").render(<App />);">>,
                "script", TRUE, TRUE, FALSE, ").render(<App />);"),
       Artifact(<<"widget", ".", "jsx">>,
                <<"import ", "React", " from ", "'react'", ";", "\n",
                  "import ", "'./style.css'", ";", "\n",
                  "const App", " = () => <p>Hello", " from ", "'me'", "</p>;">>,
                "script", TRUE, FALSE, TRUE, "</p>;"),
       Artifact(<<"components", "/", "Card", ".", "jsx">>,
                <<"export ", "const Card", " = () => null;">>,
                "script", FALSE, FALSE, FALSE, "const Card"),
       Artifact(<<"script", ".", "js">>, <<"console.log('x');">>,
                "script", FALSE, FALSE, FALSE, "console.log('x');"),
       Artifact(<<"price", ".", "js">>, <<"label.textContent = '", "$'", " + price;">>,
                "script", FALSE, FALSE, FALSE, "label.textContent = '"),
       Artifact(<<"section", ".", "liquid">>,
                <<"<h2>", "{{ section.settings.title }}", "</h2>",
                  "{% stylesheet %}", "h2 { color: red; }", "{% endstylesheet %}",
                  "{% schema %}", "{ \"name\": \"Hero\" }", "{% endschema %}">>,
                "templating", FALSE, FALSE, FALSE, "<h2>"),
       Artifact(<<"banner", ".", "liquid">>,
                <<"<img src=\"", "{{ section.settings.image | img_url: 'large' }}", "\">",
                  "<img src=\"", "{{ product.image | img_url }}", "\">",
                  "{% if x %}", "{{ product.title }}", "{% endif %}">>,
                "templating", FALSE, FALSE, FALSE, "<img src=\""),
       Artifact(<<"sized", ".", "liquid">>,
                <<"{% assign width = '100%' %}", "<div>", "{{ product.title }}", "</div>">>,
                "templating", FALSE, FALSE, FALSE, "<div>"),
       Artifact(<<"README", ".", "md">>, <<"# Readme">>,
                "other", FALSE, FALSE, FALSE, "# Readme") >>

ArtifactIds == 1..Len(Artifacts)
IdOf(name) == CHOOSE k \in ArtifactIds : Artifacts[k].name = name
MainCpp == IdOf(<<"main", ".", "cpp">>)
MainPy == IdOf(<<"main", ".", "py">>)
StyleCss == IdOf(<<"style", ".", "css">>)
ThemeCss == IdOf(<<"theme", ".", "css">>)
IndexHtml == IdOf(<<"index", ".", "html">>)
PreviewHtml == IdOf(<<"preview", ".", "html">>)
PreviewHtmlCapital == IdOf(<<"Preview", ".", "html">>)
PageHtml == IdOf(<<"page", ".", "html">>)
FragmentHtml == IdOf(<<"fragment", ".", "html">>)
AppJsx == IdOf(<<"app", ".", "jsx">>)
IndexJsx == IdOf(<<"index", ".", "jsx">>)
WidgetJsx == IdOf(<<"widget", ".", "jsx">>)
CardJsx == IdOf(<<"components", "/", "Card", ".", "jsx">>)
ScriptJs == IdOf(<<"script", ".", "js">>)
PriceJs == IdOf(<<"price", ".", "js">>)
SectionLiquid == IdOf(<<"section", ".", "liquid">>)
BannerLiquid == IdOf(<<"banner", ".", "liquid">>)
SizedLiquid == IdOf(<<"sized", ".", "liquid">>)

\* the GeneratedFile list of a list of artifacts
filesOf(ids) == [i \in 1..Len(ids) |-> File(Artifacts[ids[i]].name, Artifacts[ids[i]].content)]

\* one more artifact in the list shown by the viewer
AddArtifact(k) ==
    /\ Len(aFiles) < MaxFiles
    /\ aFiles' = Append(aFiles, k)
    /\ out' = None
    /\ UNCHANGED <<extractVars, cppVars, appVars, runVars, viewVars>>

\* the effect of FileViewer on files: const html = assemblePreview(files)
AssemblePreview ==
    /\ out = None
    /\ out' = Some(assemblePreview(filesOf(aFiles)))
    /\ UNCHANGED <<aFiles, extractVars, cppVars, appVars, runVars, viewVars>>

InitAsm == OtherInitExtract /\ OtherInitCpp /\ OtherInitAsm /\ OtherInitApp /\ OtherInitRun /\ OtherInitView

NextAsm ==
    \/ \E k \in ArtifactIds : AddArtifact(k)
    \/ AssemblePreview

SpecAsm == InitAsm /\ [][NextAsm]_vars

\* ------------------------------------------------------------------------
\* Claims about the assembler
\* ------------------------------------------------------------------------
RolesOf(ids) == {Artifacts[ids[i]].role : i \in 1..Len(ids)}
Count(s, t) == Cardinality({i \in 1..Len(s) : s[i] = t})
\* the first artifact of a family
FirstOf(ids, role) ==
    Artifacts[ids[CHOOSE i \in 1..Len(ids) :
                     /\ Artifacts[ids[i]].role = role
                     /\ \A j \in 1..(i - 1) : Artifacts[ids[j]].role # role]]

\* what a returned document shows of the path that built it
NativeMarker == "setTimeout(() => {"
FrameworkMarker == "<script type=\"text/babel\" data-type=\"module\">"
TemplatingMarker == "<title>Liquid Preview</title>"
ShellMarker == "<title>Preview</title>"
IsNativeDoc(doc) == Count(doc, NativeMarker) > 0
StrategiesOf(doc) ==
    LET seen == {m \in {NativeMarker, FrameworkMarker, TemplatingMarker} : Count(doc, m) > 0}
    IN  IF seen = {} THEN {"plain"}
        ELSE {CASE m = NativeMarker -> "native"
                [] m = FrameworkMarker -> "framework"
                [] OTHER -> "templating" : m \in seen}

FrameworkDetected(ids) == \E i \in 1..Len(ids) : Artifacts[ids[i]].framework

\* C3 as the claim states it: the native path is taken if and only if there
\* is no preview document, no markup file, no script-family file and no
\* style-family file, and at least one artifact has a non-browser-language
\* extension.
C3_AsClaimed ==
    out.some =>
        (IsNativeDoc(out.val.html)
           <=> /\ RolesOf(aFiles) \cap {"preview", "markup", "script", "style"} = {}
               /\ "native" \in RolesOf(aFiles))

\* C3: assemblePreview takes the native (console-simulation) path if and
\* only if the artifact list holds no preview document, no markup file and no
\* script-family file, and holds at least one artifact with a
\* non-browser-language extension; style files do not matter.
C3_NativeIff ==
    out.some =>
        (IsNativeDoc(out.val.html)
           <=> /\ RolesOf(aFiles) \cap {"preview", "markup", "script"} = {}
               /\ "native" \in RolesOf(aFiles))

C3_Witness ==
    /\ out.some /\ aFiles = <<MainCpp, StyleCss>>
    /\ IsNativeDoc(out.val.html)

ExpectedStrategy(ids) ==
    IF RolesOf(ids) \cap {"preview", "markup", "script"} = {} /\ "native" \in RolesOf(ids)
    THEN "native"
    ELSE IF FrameworkDetected(ids) THEN "framework"
    ELSE IF "templating" \in RolesOf(ids) /\ RolesOf(ids) \cap {"preview", "markup"} = {}
    THEN "templating"
    ELSE "plain"

MinimalShell ==
    <<"<!DOCTYPE html>", "<html lang>", "<head>",
      "\n", "<script>", "CONSOLE_HOOK", "</script>",
      "<meta charset>", "<title>Preview</title>", "<style>", "SHELL_CSS", "</style>",
      "</head>", "<body>", "<div id=\"root\">", "</div>", "</body>", "</html>">>

\* C5: assemblePreview returns a document and never throws, whatever the
\* artifact list; for the empty list the document is the minimal shell, with
\* the console bridge, an empty root element and no artifact script.
C5_NeverThrows ==
    out.some =>
        /\ ~out.val.threw
        /\ Count(out.val.html, "TypeError") = 0
        /\ Len(out.val.html) > 0
        /\ aFiles = <<>> =>
              /\ out.val.html = MinimalShell
              /\ Count(out.val.html, "CONSOLE_HOOK") = 1
              /\ Count(out.val.html, "<script>") = 1
              /\ Includes(out.val.html, <<"<div id=\"root\">", "</div>">>)

C5_Witness == out.some /\ aFiles = <<>> /\ out.val.html = MinimalShell

\* the sources of a base document that show in a returned document
BaseMarks ==
    {Artifacts[k].mark : k \in {x \in ArtifactIds :
                                   Artifacts[x].role \in {"markup", "preview"}}}
        \cup {TemplatingMarker, ShellMarker}
BasesOf(doc) == {m \in BaseMarks : Count(doc, m) > 0}

\* C6 as the claim states it: in a non-native assembly the base document is
\* the first preview.html, else the first .html artifact, else the
\* templating renderer output for the first .liquid artifact, else the shell.
C6_AsClaimed ==
    (out.some /\ ~IsNativeDoc(out.val.html)) =>
        BasesOf(out.val.html) =
            {IF "preview" \in RolesOf(aFiles) THEN FirstOf(aFiles, "preview").mark
             ELSE IF "markup" \in RolesOf(aFiles) THEN FirstOf(aFiles, "markup").mark
             ELSE IF "templating" \in RolesOf(aFiles) THEN TemplatingMarker
             ELSE ShellMarker}

\* C6: in every non-native assembly the base document is the content of
\* the first preview.html artifact if there is one; otherwise the content of
\* the first .html artifact; otherwise, when no framework import signature
\* was detected, the templating renderer output for the first .liquid
\* artifact; otherwise the synthesized empty-root shell. No lower source is
\* used when a higher one exists.
C6_BasePrecedence ==
    (out.some /\ ~IsNativeDoc(out.val.html)) =>
        BasesOf(out.val.html) =
            {IF "preview" \in RolesOf(aFiles) THEN FirstOf(aFiles, "preview").mark
             ELSE IF "markup" \in RolesOf(aFiles) THEN FirstOf(aFiles, "markup").mark
             ELSE IF "templating" \in RolesOf(aFiles) /\ ~FrameworkDetected(aFiles)
             THEN TemplatingMarker
             ELSE ShellMarker}

C6_Witness ==
    /\ out.some /\ aFiles = <<IndexHtml, PreviewHtml>>
    /\ BasesOf(out.val.html) = {Artifacts[PreviewHtml].mark}

SynthesizedMount == "root.render(React.createElement(App));"

\* C7 as the claim states it: in framework linking a mount call is
\* synthesized exactly when no script artifact contains an explicit
\* root-mount call and some script artifact declares a top-level binding
\* named App, and then the linked script holds exactly one mount call.
C7_MountExactlyWhen ==
    (out.some /\ Count(out.val.html, FrameworkMarker) > 0) =>
        LET scripts == {aFiles[i] : i \in {j \in 1..Len(aFiles) :
                                             Artifacts[aFiles[j]].role = "script"}}
            wanted == /\ ~\E k \in scripts : Artifacts[k].mounts
                      /\ \E k \in scripts : Artifacts[k].app
        IN  /\ Count(out.val.html, SynthesizedMount) = (IF wanted THEN 1 ELSE 0)
            /\ wanted => Count(out.val.html, "document.getElementById('root')") = 0

C7_TwoArtifacts ==
    (out.some /\ aFiles = <<AppJsx, CardJsx>>) =>
        Count(out.val.html, SynthesizedMount) = 1

C7_TwoArtifactsWitness == out.some /\ aFiles = <<AppJsx, CardJsx>>

\* the artifact ids named by the part headers of a linked script, in the order
\* in which the parts occur
RECURSIVE LinkedIdsFrom(_, _)
LinkedIdsFrom(html, i) ==
    IF i > Len(html) THEN <<>>
    ELSE IF html[i] = "// --- "
    THEN <<IdOf(SubSeq(html, i + 1, IndexOf(html, <<" ---">>, i) - 1))>>
         \o LinkedIdsFrom(html, i + 1)
    ELSE LinkedIdsFrom(html, i + 1)

IsScriptId(k) == Artifacts[k].role = "script"

\* the priority classes of the claim: entry-point-named index/main files,
\* the application-root-named App file, files under a components directory,
\* all others
PriorityClass ==
    [k \in ArtifactIds |-> IF k = IndexJsx THEN 3
                           ELSE IF k = AppJsx THEN 2
                           ELSE IF k = CardJsx THEN 1
                           ELSE 0]

\* C12: in the linked framework script the rewritten artifact bodies appear
\* in ascending priority (others, components directory, App file, index/main
\* files), and artifacts of equal priority keep their extraction order.
C12_LinkedOrder ==
    (out.some /\ Count(out.val.html, FrameworkMarker) > 0) =>
        LET linked == LinkedIdsFrom(out.val.html, 1)
            scripts == SelectSeq(aFiles, IsScriptId)
        IN  /\ Len(linked) = Len(scripts)
            /\ \A i \in 1..(Len(linked) - 1) :
                  PriorityClass[linked[i]] <= PriorityClass[linked[i + 1]]
            /\ \A c \in 0..3 :
                  LET InClass(k) == PriorityClass[k] = c
                  IN  SelectSeq(linked, InClass) = SelectSeq(scripts, InClass)

\* the entry point extracted first is linked last
C12_Witness ==
    /\ out.some /\ aFiles = <<IndexJsx, AppJsx>>
    /\ LinkedIdsFrom(out.val.html, 1) = <<AppJsx, IndexJsx>>

\* two artifacts of equal priority keep their extraction order
C12_EqualScoreWitness ==
    /\ out.some /\ aFiles = <<WidgetJsx, ScriptJs>>
    /\ LinkedIdsFrom(out.val.html, 1) = <<WidgetJsx, ScriptJs>>

\* the number of positions of s at which pat occurs
CountSeq(s, pat) == Cardinality({i \in 1..Len(s) : OccursAt(s, pat, i)})

\* the import statements written in the script artifacts: those of a
\* package, and those of a relative path
ExternalImportsOf(k) ==
    IF k = AppJsx THEN {<<"import ", "React", " from ", "'react'", ";">>}
    ELSE IF k = IndexJsx
    THEN {<<"import ", "ReactDOM", " from ", "'react-dom/client'", ";">>}
    ELSE IF k = WidgetJsx THEN {<<"import ", "React", " from ", "'react'", ";">>}
    ELSE {}

LocalImportsOf(k) ==
    IF k = IndexJsx THEN {<<"import ", "App", " from ", "'./App'", ";">>}
    ELSE IF k = WidgetJsx THEN {<<"import ", "'./style.css'", ";">>}
    ELSE {}

\* the linked script of a document, and its two regions: the block before
\* the guarded bodies and the guarded bodies
LinkedScript(html) ==
    SubSeq(html, IndexOf(html, <<FrameworkMarker>>, 1),
           IndexOf(html, <<"} catch (err) {">>, 1))
ImportBlock(html) ==
    SubSeq(html, IndexOf(html, <<FrameworkMarker>>, 1), IndexOf(html, <<"PROCESS_SHIM">>, 1))
LinkedBodies(html) ==
    SubSeq(html, IndexOf(html, <<"try {">>, 1), IndexOf(html, <<"} catch (err) {">>, 1))

\* C13 as claimed: after framework linking no rewritten body contains an
\* import statement, every external import statement of a script artifact
\* appears verbatim exactly once in the block prepended before the bodies,
\* and no relative import statement appears anywhere in the linked script.
C13_ImportsHoisted ==
    (out.some /\ Count(out.val.html, FrameworkMarker) > 0) =>
        LET scripts == {aFiles[i] : i \in {j \in 1..Len(aFiles) : IsScriptId(aFiles[j])}}
        IN  /\ Count(LinkedBodies(out.val.html), "import ") = 0
            /\ \A k \in scripts : \A st \in ExternalImportsOf(k) :
                  CountSeq(ImportBlock(out.val.html), st) = 1
            /\ \A k \in scripts : \A st \in LocalImportsOf(k) :
                  CountSeq(LinkedScript(out.val.html), st) = 0

\* the same for the artifact lists without widget.jsx, whose side-effect
\* import is followed by a later from
C13_HoistedWithoutSideEffectFirst ==
    (\A i \in 1..Len(aFiles) : aFiles[i] # WidgetJsx) => C13_ImportsHoisted

C13_HoistedWitness ==
    /\ out.some /\ aFiles = <<IndexJsx, AppJsx>>
    /\ CountSeq(ImportBlock(out.val.html), <<"import ", "React", " from ", "'react'", ";">>) = 1

\* the script-family contents of a list of artifacts, in artifact order, one
\* per line
ScriptContents(ids) ==
    LET scripts == SelectSeq(ids, IsScriptId)
    IN  Join([i \in 1..Len(scripts) |-> Artifacts[scripts[i]].content], <<"\n">>)

\* a plain script element with the given body
HasPlainScript(html, body) ==
    \E i \in 1..Len(html) : OccursAt(html, <<"<script>">> \o body \o <<"</script>">>, i)

IsVanillaCase ==
    /\ out.some /\ ~IsNativeDoc(out.val.html)
    /\ Count(out.val.html, FrameworkMarker) = 0
    /\ \E i \in 1..Len(aFiles) : IsScriptId(aFiles[i])

\* C14 as claimed: for a non-framework, non-native artifact list with a
\* script-family artifact the document holds a plain script element whose
\* body is the script-family contents in artifact order, character for
\* character, whatever characters the contents hold.
C14_ScriptVerbatim ==
    IsVanillaCase => HasPlainScript(out.val.html, ScriptContents(aFiles))

\* the same for contents without a dollar sign before a quote
C14_VerbatimWithoutDollar ==
    (IsVanillaCase /\ \A i \in 1..Len(aFiles) : aFiles[i] # PriceJs) =>
        HasPlainScript(out.val.html, ScriptContents(aFiles))

C14_VerbatimWitness ==
    /\ IsVanillaCase /\ aFiles = <<ScriptJs, IndexHtml>>
    /\ HasPlainScript(out.val.html, <<"console.log('x');">>)

\* the position of the first occurrence of a token in a document, 0 without one
PosOf(doc, t) == IndexOf(doc, <<t>>, 1)
Precedes(doc, a, b) == PosOf(doc, a) > 0 /\ PosOf(doc, a) < PosOf(doc, b)

\* what shows the injected pieces in a document: the console bridge, the
\* aggregated stylesheet (the name comment of its first file), the module
\* manifest, the transpiler reference
BridgeMarker == "CONSOLE_HOOK"
StylesheetMarker == "/* "
ManifestMarker == "IMPORT_MAP"
TranspilerMarker == "<script babel.min.js>"

\* the statements of the scripts supplied by artifacts: the script files,
\* the simulation of a native file and the inline script of page.html
SuppliedScriptMarks ==
    {Artifacts[k].mark : k \in {x \in ArtifactIds : Artifacts[x].role = "script"}}
        \cup {NativeMarker, Artifacts[PageHtml].mark}

\* the bridge stands before every script supplied by an artifact
BridgeFirst(doc) ==
    /\ PosOf(doc, BridgeMarker) > 0
    /\ \A i \in 1..Len(doc) :
          doc[i] \in SuppliedScriptMarks => PosOf(doc, BridgeMarker) < i

\* C15 as claimed: in every assembled document the injected pieces stand in
\* the order console bridge, aggregated stylesheet, (framework only) module
\* manifest and transpiler reference, script body, and the console bridge
\* stands before every script supplied by an artifact.
C15_FixedOrder ==
    out.some =>
        LET doc == out.val.html
            framework == Count(doc, FrameworkMarker) > 0
        IN  /\ BridgeFirst(doc)
            /\ PosOf(doc, StylesheetMarker) > 0 =>
                  /\ Precedes(doc, BridgeMarker, StylesheetMarker)
                  /\ framework => /\ Precedes(doc, StylesheetMarker, ManifestMarker)
                                  /\ Precedes(doc, StylesheetMarker, TranspilerMarker)
            /\ framework => /\ Precedes(doc, ManifestMarker, FrameworkMarker)
                            /\ Precedes(doc, TranspilerMarker, FrameworkMarker)

\* on the framework path the bridge is inserted before the end of the head:
\* it stands before the linked script but not before a script of the base
\* document's head
C15_BridgeBeforeLinkedScript ==
    (out.some /\ Count(out.val.html, FrameworkMarker) > 0) =>
        /\ Precedes(out.val.html, BridgeMarker, ManifestMarker)
        /\ Precedes(out.val.html, ManifestMarker, TranspilerMarker)
        /\ Precedes(out.val.html, TranspilerMarker, FrameworkMarker)

\* for the documents without framework linking the order of the claim holds
C15_OrderWithoutFramework ==
    (out.some /\ Count(out.val.html, FrameworkMarker) = 0) => C15_FixedOrder

C15_EarlyScriptWitness ==
    /\ out.some /\ aFiles = <<PageHtml, AppJsx>>
    /\ Precedes(out.val.html, Artifacts[PageHtml].mark, BridgeMarker)

C15_VanillaWitness ==
    /\ out.some /\ aFiles = <<PageHtml, StyleCss>>
    /\ Precedes(out.val.html, BridgeMarker, Artifacts[PageHtml].mark)
    /\ Precedes(out.val.html, Artifacts[PageHtml].mark, StylesheetMarker)

IsStyleId(k) == Artifacts[k].role = "style"
IsStyleRule(t) == \E k \in ArtifactIds : IsStyleId(k) /\ t = Artifacts[k].mark
\* the contents of the stylesheet artifacts of a list, in artifact order
StyleRulesOf(ids) ==
    LET styles == SelectSeq(ids, IsStyleId)
    IN  [i \in 1..Len(styles) |-> Artifacts[styles[i]].mark]

\* C16 as claimed: the document of an artifact list that is not assembled on
\* the native path holds the content of every stylesheet artifact, in
\* artifact order, whatever the base document looks like.
C16_StylesIncluded ==
    (out.some /\ ~IsNativeDoc(out.val.html)) =>
        SelectSeq(out.val.html, IsStyleRule) = StyleRulesOf(aFiles)

\* the same for the base documents that hold the end of a head or the start
\* of a body
C16_StylesWithHeadOrBody ==
    (out.some /\ ~IsNativeDoc(out.val.html)
       /\ IncludesAny(out.val.base, {"</head>", "<body>"})) =>
        SelectSeq(out.val.html, IsStyleRule) = StyleRulesOf(aFiles)

\* the languages whose simulation a native document holds: the banner of the
\* C++ wrapper, the console line of a print statement
SimulatedExts(doc) ==
    (IF Count(doc, "console.log(\"C++ Interactive Simulation Started\");") > 0
     THEN {"cpp"} ELSE {})
    \cup (IF Count(doc, "console.log(\"") > 0 THEN {"py"} ELSE {})

Reverse(s) == [i \in 1..Len(s) |-> s[Len(s) + 1 - i]]

\* C19 as claimed: under native classification one artifact is simulated,
\* chosen by extension priority: the same native artifacts in another order
\* select the artifact with the same extension.
C19_SameExtensionInAnyOrder ==
    (out.some /\ IsNativeDoc(out.val.html)) =>
        /\ Cardinality(SimulatedExts(out.val.html)) = 1
        /\ SimulatedExts(out.val.html)
             = SimulatedExts(assemblePreview(filesOf(Reverse(aFiles))).html)

\* C19 (amended): under native classification exactly one artifact is
\* simulated, the first artifact of the list with a native-language
\* extension, whatever the extensions of the later ones.
C19_FirstNativeSimulated ==
    (out.some /\ IsNativeDoc(out.val.html)) =>
        /\ Count(out.val.html, NativeMarker) = 1
        /\ SimulatedExts(out.val.html) = {FirstOf(aFiles, "native").name[3]}

C19_Witness ==
    /\ out.some /\ aFiles = <<MainPy, MainCpp>>
    /\ SimulatedExts(out.val.html) = {"py"}

\* the double-brace expressions and the logic tags written in the .liquid
\* artifacts
DoubleBraceExpressions ==
    {"{{ section.settings.title }}", "{{ section.settings.image | img_url: 'large' }}",
     "{{ product.image | img_url }}", "{{ product.title }}"}
LogicTags ==
    {"{% if x %}", "{% endif %}", "{% assign width = '100%' %}", "{% schema %}",
     "{% endschema %}", "{% stylesheet %}", "{% endstylesheet %}"}
\* what stands for an expression in the rendered markup
Placeholders ==
    {"https://placehold.co/600x400?text=Section+Image",
     "https://placehold.co/600x400?text=Image",
     "<span data-liquid=\"title \">", "<!-- product.title  -->"}
CountIn(s, toks) == Cardinality({i \in 1..Len(s) : s[i] \in toks})

IsRendered == out.some /\ Count(out.val.html, TemplatingMarker) > 0

\* C20 as claimed: the markup rendered for a .liquid artifact holds no
\* double-brace expression and no logic tag: every expression of the source
\* is replaced by a placeholder image reference, a labelled span or an HTML
\* comment, and every logic tag is removed.
C20_Inert ==
    IsRendered =>
        /\ CountIn(out.val.html, DoubleBraceExpressions) = 0
        /\ CountIn(out.val.html, LogicTags) = 0
        /\ CountIn(out.val.html, Placeholders)
             = CountIn(FirstOf(aFiles, "templating").content, DoubleBraceExpressions)

\* the same for the artifacts whose tags hold no percent sign
C20_InertWithoutPercent ==
    (IsRendered /\ FirstOf(aFiles, "templating").name # Artifacts[SizedLiquid].name) =>
        /\ CountIn(out.val.html, DoubleBraceExpressions) = 0
        /\ CountIn(out.val.html, LogicTags) = 0
        /\ CountIn(out.val.html, Placeholders)
             = CountIn(FirstOf(aFiles, "templating").content, DoubleBraceExpressions)

C20_InertWitness ==
    /\ IsRendered /\ aFiles = <<BannerLiquid>>
    /\ CountIn(out.val.html, Placeholders) = 3

C16_HeadlessWitness ==
    /\ out.some /\ aFiles = <<PreviewHtmlCapital, StyleCss>>
    /\ Includes(out.val.html, <<"<head>", "\n", "<script>", "CONSOLE_HOOK", "</script>",
                                "<style>", "/* ", "style", ".", "css", " */", "\n",
                                "h1 { color: blue; }", "</style>", "</head>", "<body>">>)


\* ------------------------------------------------------------------------
\* The App component (src/App.tsx 10-222)
\* ------------------------------------------------------------------------
\* GenerationState without its status message: error is TRUE for a message
idle == [isGenerating |-> FALSE, error |-> FALSE]
busy == [isGenerating |-> TRUE, error |-> FALSE]
failed == [isGenerating |-> FALSE, error |-> TRUE]

\* the responses of the model: one delimited file, another delimited file,
\* and prose only, as in the text "No changes generated." of editCode
ResponseIds == {1, 2, 4}
\* const files = parseGeneratedContent(fullText), App.tsx 536, 608, 652
filesOfResponse(r) == parseGeneratedContent(Pieces[r].toks)

\* a handler suspended at its await, with the state its closure captured
Request(kind, fileIndex) ==
    [kind |-> kind, fileIndex |-> fileIndex, generatedFiles |-> generatedFiles,
     history |-> history, historyIndex |-> historyIndex]

RemoveAt(s, i) == SubSeq(s, 1, i - 1) \o From(s, i + 1)

\* newFiles[index] = { ...activeFile, content }
withContent(fs, index, content) ==
    [i \in 1..Len(fs) |-> IF i = index THEN [fs[i] EXCEPT !.content = content] ELSE fs[i]]

\* the same assignment made in the array itself
assignInPlace(fs, index, content) ==
    [files |-> withContent(fs, index, content), newFiles |-> withContent(fs, index, content)]

\* const newFiles = [...files]; newFiles[index] = {...}: the array read and
\* the array made, after the assignment (App.tsx 193-194, FileViewer.tsx
\* 265-266). The spread allocates the array that is assigned into.
assignInCopy(fs, index, content) ==
    [files |-> fs, newFiles |-> withContent(fs, index, content)]

\* The history h of a closure after the handler worked on the displayed
\* array fs: the entry at the index is that array object when the two are
\* equal, so what the handler left in the array is what the entry holds.
historySharing(h, hi, fs, after) ==
    [k \in 1..Len(h) |-> IF k = hi + 1 /\ h[k] = fs THEN after ELSE h[k]]

\* pushToHistory, lines 29-35, called by a handler whose closure holds the history
\* h and the index hi; the index counts from 0
pushToHistory(h, hi, newFiles) ==
    LET newHistory == Append(SubSeq(h, 1, hi + 1), newFiles)
    IN  /\ history' = newHistory
        /\ historyIndex' = Len(newHistory) - 1
        /\ generatedFiles' = newFiles

CanStart ==
    /\ Len(inflight) < MaxInflight
    /\ Len(history) < MaxHistory

\* handleGenerate up to its await, lines 63-83; the button is disabled while
\* isGenerating
handleGenerate ==
    /\ ~genState.isGenerating
    /\ CanStart
    /\ genState' = busy
    /\ generatedFiles' = <<>>
    /\ inflight' = Append(inflight, Request("generate", 0))
    /\ lastDone' = None
    /\ UNCHANGED <<history, historyIndex, extractVars, cppVars, asmVars, runVars, viewVars>>

\* handleGenerate after generateCode resolved, lines 84-94
generateCodeResolved(i, r) ==
    /\ inflight[i].kind = "generate"
    /\ generatedFiles' = filesOfResponse(r)
    /\ history' = <<filesOfResponse(r)>>
    /\ historyIndex' = 0
    /\ genState' = idle
    /\ inflight' = RemoveAt(inflight, i)
    /\ lastDone' = Some([kind |-> "generate", files |-> filesOfResponse(r),
                         generatedFiles |-> generatedFiles, history |-> history,
                         historyIndex |-> historyIndex])
    /\ UNCHANGED <<extractVars, cppVars, asmVars, runVars, viewVars>>

\* handleAiEdit (kind edit, lines 107-116) and handleAiFix (kind fix, lines
\* 138-147) up to the await; the viewer that offers them is rendered while
\* generatedFiles is not empty
handleAiStart(kind) ==
    /\ Len(generatedFiles) > 0
    /\ CanStart
    /\ genState' = busy
    /\ inflight' = Append(inflight, Request(kind, 0))
    /\ lastDone' = None
    /\ UNCHANGED <<generatedFiles, history, historyIndex, extractVars, cppVars, asmVars, runVars, viewVars>>

handleAiEdit == handleAiStart("edit")
handleAiFix == handleAiStart("fix")

\* handleAiEdit after editCode resolved, lines 116-127, and handleAiFix after
\* fixCode resolved, lines 147-158
aiResolved(i, r) ==
    /\ inflight[i].kind \in {"edit", "fix"}
    /\ pushToHistory(inflight[i].history, inflight[i].historyIndex, filesOfResponse(r))
    /\ genState' = idle
    /\ inflight' = RemoveAt(inflight, i)
    /\ lastDone' = Some([kind |-> inflight[i].kind, files |-> filesOfResponse(r),
                         generatedFiles |-> generatedFiles, history |-> history,
                         historyIndex |-> historyIndex])
    /\ UNCHANGED <<extractVars, cppVars, asmVars, runVars, viewVars>>

\* handleAiPartialEdit up to its await, lines 168-183
handleAiPartialEdit(fileIndex) ==
    /\ fileIndex \in 1..Len(generatedFiles)
    /\ CanStart
    /\ genState' = busy
    /\ inflight' = Append(inflight, Request("partial", fileIndex))
    /\ lastDone' = None
    /\ UNCHANGED <<generatedFiles, history, historyIndex, extractVars, cppVars, asmVars, runVars, viewVars>>

\* handleAiPartialEdit after editPartialCode resolved, lines 184-197, for a
\* selection from start to end of the file's content
partialResolved(i, start, end, replacementCode) ==
    /\ inflight[i].kind = "partial"
    /\ LET snap == inflight[i]
           activeFile == snap.generatedFiles[snap.fileIndex]
       IN  /\ start <= end /\ end <= Len(activeFile.content)
           /\ \E arrays \in {assignInCopy(snap.generatedFiles, snap.fileIndex,
                                SubSeq(activeFile.content, 1, start) \o replacementCode
                                    \o From(activeFile.content, end + 1))} :
                  pushToHistory(historySharing(snap.history, snap.historyIndex,
                                               snap.generatedFiles, arrays.files),
                                snap.historyIndex, arrays.newFiles)
    /\ genState' = idle
    /\ inflight' = RemoveAt(inflight, i)
    /\ lastDone' = Some([kind |-> "partial", files |-> generatedFiles',
                         generatedFiles |-> generatedFiles, history |-> history,
                         historyIndex |-> historyIndex])
    /\ UNCHANGED <<extractVars, cppVars, asmVars, runVars, viewVars>>

\* the catch blocks of the four handlers, lines 98-104, 129-135, 159-165,
\* 199-205: the request was rejected
requestRejected(i) ==
    /\ i \in 1..Len(inflight)
    /\ genState' = failed
    /\ inflight' = RemoveAt(inflight, i)
    /\ lastDone' = None
    /\ UNCHANGED <<generatedFiles, history, historyIndex, extractVars, cppVars, asmVars, runVars, viewVars>>

\* handleSaveEdit of the viewer (FileViewer.tsx 263-271) calling
\* handleUpdateFiles, lines 220-222
handleUpdateFiles(fileIndex, editContent) ==
    /\ fileIndex \in 1..Len(generatedFiles)
    /\ Len(history) < MaxHistory
    /\ \E arrays \in {assignInCopy(generatedFiles, fileIndex, editContent)} :
           pushToHistory(historySharing(history, historyIndex, generatedFiles, arrays.files),
                         historyIndex, arrays.newFiles)
    /\ lastDone' = None
    /\ UNCHANGED <<genState, inflight, extractVars, cppVars, asmVars, runVars, viewVars>>

\* the state the undo and redo handlers read and write
appState ==
    [generatedFiles |-> generatedFiles, history |-> history, historyIndex |-> historyIndex]

\* canUndo and canRedo, lines 301-302, the tests of lines 38 and 46
canUndo(st) == st.historyIndex > 0
canRedo(st) == st.historyIndex < Len(st.history) - 1

\* a redo that moves the index and leaves the displayed list
redoIndexOnly(st) ==
    IF canRedo(st) THEN [st EXCEPT !.historyIndex = @ + 1] ELSE st

\* the body of handleUndo, lines 38-42; the index counts from 0
undo(st) ==
    IF canUndo(st)
    THEN [st EXCEPT !.historyIndex = @ - 1, !.generatedFiles = st.history[st.historyIndex]]
    ELSE st

\* the body of handleRedo, lines 46-50
redo(st) ==
    IF canRedo(st)
    THEN [st EXCEPT !.historyIndex = @ + 1, !.generatedFiles = st.history[st.historyIndex + 2]]
    ELSE st

\* handleUndo, lines 37-43, from the button of the viewer, which is rendered
\* for a non-empty list and disabled unless canUndo
handleUndo ==
    /\ Len(generatedFiles) > 0
    /\ canUndo(appState)
    /\ historyIndex' = undo(appState).historyIndex
    /\ generatedFiles' = undo(appState).generatedFiles
    /\ history' = undo(appState).history
    /\ lastDone' = None
    /\ UNCHANGED <<genState, inflight, extractVars, cppVars, asmVars, runVars, viewVars>>

\* handleRedo, lines 45-51
handleRedo ==
    /\ Len(generatedFiles) > 0
    /\ canRedo(appState)
    /\ historyIndex' = redo(appState).historyIndex
    /\ generatedFiles' = redo(appState).generatedFiles
    /\ history' = redo(appState).history
    /\ lastDone' = None
    /\ UNCHANGED <<genState, inflight, extractVars, cppVars, asmVars, runVars, viewVars>>

InitApp == OtherInitExtract /\ OtherInitCpp /\ OtherInitAsm /\ OtherInitApp /\ OtherInitRun /\ OtherInitView

NextApp ==
    \/ handleGenerate
    \/ \E i \in 1..Len(inflight), r \in ResponseIds : generateCodeResolved(i, r)
    \/ handleAiEdit
    \/ handleAiFix
    \/ \E i \in 1..Len(inflight), r \in ResponseIds : aiResolved(i, r)
    \/ \E fileIndex \in 1..Len(generatedFiles) : handleAiPartialEdit(fileIndex)
    \/ \E i \in 1..Len(inflight) : partialResolved(i, 0, 1, <<"patched">>)
    \/ \E i \in 1..Len(inflight) : requestRejected(i)
    \/ \E fileIndex \in 1..Len(generatedFiles) : handleUpdateFiles(fileIndex, <<"typed">>)
    \/ handleUndo
    \/ handleRedo

SpecApp == InitApp /\ [][NextApp]_vars

\* ------------------------------------------------------------------------
\* Claims about the App component
\* ------------------------------------------------------------------------
\* C10: when the response to an edit or fix request extracts to an empty
\* list of files, the caller treats it as no content produced: no error is
\* set and the displayed files, the history and the history index are left
\* as they were, not replaced by the empty list.
C10_EmptyEditKeepsFiles ==
    (lastDone.some /\ lastDone.val.kind \in {"edit", "fix"} /\ lastDone.val.files = <<>>) =>
        /\ ~genState.error
        /\ generatedFiles = lastDone.val.generatedFiles
        /\ history = lastDone.val.history
        /\ historyIndex = lastDone.val.historyIndex

\* the part of C10 about the error state
C10_EmptyEditSetsNoError ==
    (lastDone.some /\ lastDone.val.kind \in {"edit", "fix"} /\ lastDone.val.files = <<>>) =>
        ~genState.error


\* ------------------------------------------------------------------------
\* The preview document at run time: the console bridge
\* (src/utils/compiler.ts 127-177), the guarded block of the linked script
\* (444-459) and the wrapper of the C++ simulation (53-65, 191-193)
\* ------------------------------------------------------------------------
MaxStmts == 2

Event(type, message) == [type |-> type, message |-> message]

\* send(type, args), lines 130-144: one message on the log channel
send(log, type, message) == Append(log, Event(type, message))

\* the wrapped console.log and console.error, lines 151-152
consoleLog(log, message) == send(log, "log", message)
consoleError(log, message) == send(log, "error", message)

\* window.onerror, lines 157-170: the message is sent, and the panel is
\* written if the root element exists and is empty
onerror(log, root) ==
    [log  |-> send(log, "error", "Uncaught Error: boom"),
     root |-> IF root = "empty" THEN "previewPanel" ELSE root]

\* the unhandledrejection listener, lines 173-175
onunhandledrejection(log) == send(log, "error", "Unhandled Promise Rejection: Error: boom")

\* a catch clause that writes the panel into an empty root only
scriptCatchIfEmpty(log, root) ==
    [log  |-> consoleError(log, "Runtime Script Error:"),
     root |-> IF root = "empty" THEN "scriptPanel" ELSE root]

\* the catch clause of the linked script, lines 451-457: if (root) guards
\* against a missing element only
scriptCatch(log, root) ==
    [log  |-> consoleError(log, "Runtime Script Error:"),
     root |-> IF root # "none" THEN "scriptPanel" ELSE root]

\* the catch clause of the C++ wrapper, line 63
cppCatch(log) == consoleError(log, "Runtime Error:")

\* The statements of an artifact body, as far as errors and the log channel
\* go: console.log('x'), throw new Error('boom'), and setTimeout of a
\* callback that throws. A rewritten C++ body holds no timers.
FrameworkStmts == {"log", "throw", "defer"}
NativeStmts == {"log", "throw"}
Bodies(kinds) == UNION {[1..n -> kinds] : n \in 0..MaxStmts}
\* the element with id root in the base document: missing, empty, or with
\* markup of its own
RootContents == {"none", "empty", "content"}

\* the document of the framework path is loaded in the frame
LoadFramework(body, root) ==
    /\ rPc = "idle"
    /\ rPage' = "framework" /\ rStmts' = body /\ rRoot' = root /\ rPc' = "hook"
    /\ UNCHANGED <<rLog, rTasks, rFault, extractVars, cppVars, asmVars, appVars, viewVars>>

\* the document of the native path, lines 181-196, which has no root element
LoadNative(body) ==
    /\ rPc = "idle"
    /\ rPage' = "native" /\ rStmts' = body /\ rRoot' = "none" /\ rPc' = "hook"
    /\ UNCHANGED <<rLog, rTasks, rFault, extractVars, cppVars, asmVars, appVars, viewVars>>

\* the script of lines 128-176 runs: the console verbs are wrapped and the
\* two handlers installed; the linked script then enters its try block, the
\* native script sets its timer (line 191)
InstallHook ==
    /\ rPc = "hook"
    /\ rPc' = IF rPage = "native" THEN "timer" ELSE "body"
    /\ UNCHANGED <<rPage, rStmts, rRoot, rLog, rTasks, rFault,
                   extractVars, cppVars, asmVars, appVars, viewVars>>

\* the timer of line 191 fires: lines 54-57, up to the call of the async
\* function
TimerFires ==
    /\ rPc = "timer"
    /\ rLog' = consoleLog(rLog, "C++ Interactive Simulation Started")
    /\ rPc' = "body"
    /\ UNCHANGED <<rPage, rStmts, rRoot, rTasks, rFault,
                   extractVars, cppVars, asmVars, appVars, viewVars>>

ConsoleLogStmt ==
    /\ rPc = "body" /\ rStmts # <<>> /\ Head(rStmts) = "log"
    /\ rLog' = consoleLog(rLog, "x")
    /\ rStmts' = Tail(rStmts)
    /\ UNCHANGED <<rPage, rPc, rRoot, rTasks, rFault,
                   extractVars, cppVars, asmVars, appVars, viewVars>>

DeferStmt ==
    /\ rPc = "body" /\ rStmts # <<>> /\ Head(rStmts) = "defer"
    /\ rTasks' = Append(rTasks, "callback")
    /\ rStmts' = Tail(rStmts)
    /\ UNCHANGED <<rPage, rPc, rRoot, rLog, rFault,
                   extractVars, cppVars, asmVars, appVars, viewVars>>

\* the state around a throw
Fault(where) == [where |-> where, root |-> rRoot, logged |-> Len(rLog),
                 queued |-> Len(rTasks)]

\* a statement inside the try block of line 449 throws: control passes to
\* the catch clause of line 452
ThrowInGuard ==
    /\ rPage = "framework" /\ rPc = "body" /\ rStmts # <<>> /\ Head(rStmts) = "throw"
    /\ rStmts' = <<>>
    /\ rPc' = "catch"
    /\ rFault' = Some(Fault("guard"))
    /\ UNCHANGED <<rPage, rRoot, rLog, rTasks, extractVars, cppVars, asmVars, appVars, viewVars>>

\* } catch (err) { ... }, lines 452-458
CatchScriptError ==
    /\ rPc = "catch"
    /\ rLog' = scriptCatch(rLog, rRoot).log
    /\ rRoot' = scriptCatch(rLog, rRoot).root
    /\ rPc' = "done"
    /\ UNCHANGED <<rPage, rStmts, rTasks, rFault, extractVars, cppVars, asmVars, appVars, viewVars>>

\* the try block of the linked script ends without a throw
GuardEnds ==
    /\ rPage = "framework" /\ rPc = "body" /\ rStmts = <<>>
    /\ rPc' = "done"
    /\ UNCHANGED <<rPage, rStmts, rRoot, rLog, rTasks, rFault,
                   extractVars, cppVars, asmVars, appVars, viewVars>>

\* a statement of the body of the async function of line 57 throws: the
\* promise returned by the call is rejected and the call returns normally,
\* so the catch clause of line 62 is not entered; nothing handles the
\* promise, and the rejection is reported once the script has run
ThrowInAsync ==
    /\ rPage = "native" /\ rPc = "body" /\ rStmts # <<>> /\ Head(rStmts) = "throw"
    /\ rStmts' = <<>>
    /\ rTasks' = Append(rTasks, "rejection")
    /\ rPc' = "returned"
    /\ rFault' = Some(Fault("async"))
    /\ UNCHANGED <<rPage, rRoot, rLog, extractVars, cppVars, asmVars, appVars, viewVars>>

\* the body of the async function ends without a throw
AsyncEnds ==
    /\ rPage = "native" /\ rPc = "body" /\ rStmts = <<>>
    /\ rPc' = "returned"
    /\ UNCHANGED <<rPage, rStmts, rRoot, rLog, rTasks, rFault,
                   extractVars, cppVars, asmVars, appVars, viewVars>>

\* lines 60-61, after the call of the async function has returned
ProcessFinished ==
    /\ rPc = "returned"
    /\ rLog' = consoleLog(rLog, "Process finished with exit code 0")
    /\ rPc' = "done"
    /\ UNCHANGED <<rPage, rStmts, rRoot, rTasks, rFault,
                   extractVars, cppVars, asmVars, appVars, viewVars>>

\* a queued callback runs and throws outside every try block: window.onerror
RunCallback ==
    /\ rPc = "done" /\ rTasks # <<>> /\ Head(rTasks) = "callback"
    /\ rLog' = onerror(rLog, rRoot).log
    /\ rRoot' = onerror(rLog, rRoot).root
    /\ rTasks' = Tail(rTasks)
    /\ UNCHANGED <<rPage, rStmts, rPc, rFault, extractVars, cppVars, asmVars, appVars, viewVars>>

\* the unhandledrejection event of a rejected promise without a handler
RejectionEvent ==
    /\ rPc = "done" /\ rTasks # <<>> /\ Head(rTasks) = "rejection"
    /\ rLog' = onunhandledrejection(rLog)
    /\ rTasks' = Tail(rTasks)
    /\ UNCHANGED <<rPage, rStmts, rPc, rRoot, rFault,
                   extractVars, cppVars, asmVars, appVars, viewVars>>

InitRun == OtherInitExtract /\ OtherInitCpp /\ OtherInitAsm /\ OtherInitApp /\ OtherInitRun /\ OtherInitView

NextRun ==
    \/ \E body \in Bodies(FrameworkStmts), root \in RootContents : LoadFramework(body, root)
    \/ \E body \in Bodies(NativeStmts) : LoadNative(body)
    \/ InstallHook
    \/ TimerFires
    \/ ConsoleLogStmt
    \/ DeferStmt
    \/ ThrowInGuard
    \/ CatchScriptError
    \/ GuardEnds
    \/ ThrowInAsync
    \/ AsyncEnds
    \/ ProcessFinished
    \/ RunCallback
    \/ RejectionEvent

SpecRun == InitRun /\ [][NextRun]_vars

\* ------------------------------------------------------------------------
\* Claims about the preview document at run time
\* ------------------------------------------------------------------------
IsErrorEvent(e) == e.type = "error"
\* the events sent since the throw
SentSinceFault == SubSeq(rLog, rFault.val.logged + 1, Len(rLog))
\* the linked script threw in its try block, the catch clause has run and
\* no task queued before the throw has run since
GuardHandled ==
    /\ rFault.some /\ rFault.val.where = "guard" /\ rPc = "done"
    /\ Len(rTasks) = rFault.val.queued

\* C17 as claimed: when the linked script throws, the guarded block catches
\* it, exactly one error-typed event is sent, and the error panel is written
\* into the mount root only if the root is empty at that moment; a non-empty
\* root is left unchanged.
C17_AsClaimed ==
    GuardHandled =>
        /\ SelectSeq(SentSinceFault, IsErrorEvent) = <<Event("error", "Runtime Script Error:")>>
        /\ rRoot = "scriptPanel" => rFault.val.root = "empty"
        /\ rFault.val.root = "content" => rRoot = "content"

\* C17 (amended): when a statement of the linked script throws in the
\* guarded block, the catch clause handles it, exactly one error-typed event
\* is sent, and the error panel is written into the mount root whenever the
\* root element exists, replacing what the root held; the global handler is
\* not run for the error.
C17_GuardCatches ==
    GuardHandled =>
        /\ SentSinceFault = <<Event("error", "Runtime Script Error:")>>
        /\ rRoot = IF rFault.val.root = "none" THEN "none" ELSE "scriptPanel"

\* a root with markup of its own, overwritten by the panel
C17_Witness ==
    /\ GuardHandled /\ rFault.val.root = "content" /\ rRoot = "scriptPanel"

\* the rewritten body of a C++ artifact threw and everything queued has run
AsyncFaultSettled ==
    /\ rFault.some /\ rFault.val.where = "async" /\ rPc = "done" /\ rTasks = <<>>

\* C18 as claimed: if the rewritten body of a C-family artifact throws while
\* the simulation runs, the catch clause of the wrapper handles it and a
\* runtime-error line is reported on the log channel as an error-typed event.
C18_CatchReports ==
    AsyncFaultSettled =>
        \E i \in 1..Len(rLog) : rLog[i] = Event("error", "Runtime Error:")

\* what is reported instead: the line of a normal exit, then the rejection
C18_RejectionReported ==
    AsyncFaultSettled =>
        SentSinceFault = <<Event("log", "Process finished with exit code 0"),
                           Event("error", "Unhandled Promise Rejection: Error: boom")>>

C18_RejectionWitness ==
    AsyncFaultSettled /\ Len(rLog) = 4


\* ------------------------------------------------------------------------
\* FileViewer and its preview frame (src/components/FileViewer.tsx 57,
\* 78-111, 160-172, 234-239, 324, 337, 609-617)
\* ------------------------------------------------------------------------
MaxOps == 3

\* the artifact lists the viewer is given: a page script, a native file, a
\* text file, and a framework project with its entry file first
ViewLists == {<<ScriptJs>>, <<MainPy>>, <<IdOf(<<"README", ".", "md">>)>>, <<IndexJsx, AppJsx>>}

\* The arrays of one call of assemblePreview: the argument, and the arrays
\* that filter allocates at lines 112-113 (find returns elements, no array).
arraysOfCall(fs) ==
    [files |-> fs, cssFiles |-> Filter(fs, isCss), jsFiles |-> Filter(fs, isJs)]

\* the argument array, as the array that is sorted
argumentArray == "files"

\* line 368: jsFiles.sort(...), which sorts that array in place
sortedArray == "jsFiles"

\* The arrays when the call returns. The sort is in the framework branch
\* (lines 307-475); every other statement builds strings and leaves arrays
\* and artifacts alone.
arraysAfterCall(fs) ==
    IF assemblePreview(fs).isReact /\ ~assemblePreview(fs).isNative
    THEN [arraysOfCall(fs) EXCEPT ![sortedArray] = sortByScore(@)]
    ELSE arraysOfCall(fs)

\* the ids of a list of artifacts
idsOf(fs) == [i \in 1..Len(fs) |-> IdOf(fs[i].name)]

\* the messages a document posts through its console bridge when it runs:
\* one per console.log of its script
postedBy(html) ==
    (IF Count(html, "console.log('x');") > 0 THEN <<"x">> ELSE <<>>)
    \o (IF Includes(html, <<"console.log(\"", "Hi", "\");">>) THEN <<"Hi">> ELSE <<>>)

\* lines 97-109: the view chosen for a new list of files
defaultView(fs) ==
    IF \/ \E i \in 1..Len(fs) :
             \/ EndsWith(fs[i].name, <<".", "html">>)
             \/ HasExt(fs[i].name, jsExts \cup {"css", "liquid"}, FALSE)
       \/ \E i \in 1..Len(fs) : isNativeFile(fs[i])
    THEN "preview" ELSE "code"

\* The iframe of lines 612-617 after a render. It exists in the preview view
\* only; an iframe that stays mounted loads a document when its srcDoc
\* attribute changes, and React leaves the attribute alone when the new
\* previewHtml is the string it already holds.
commitFrame(fr, oldView, oldHtml, newView, newHtml) ==
    IF newView # "preview" THEN [gen |-> fr.gen, todo |-> <<>>]
    ELSE IF oldView = "preview" /\ newHtml = oldHtml THEN fr
    ELSE [gen |-> fr.gen + 1, todo |-> postedBy(newHtml)]

\* the effect of lines 82-111 on a new files prop (FileViewer is rendered
\* for a non-empty list only, src/App.tsx 289)
FilesChanged(ids) ==
    /\ vOps < MaxOps
    /\ vFiles' = idsOf(arraysAfterCall(filesOf(ids)).files)
    /\ vLogs' = <<>>
    /\ previewHtml' = assemblePreview(filesOf(ids)).html
    /\ mainView' = defaultView(filesOf(ids))
    /\ frame' = commitFrame(frame, mainView, previewHtml, mainView', previewHtml')
    /\ vOps' = vOps + 1
    /\ lastOp' = "files"
    /\ UNCHANGED <<channel, extractVars, cppVars, asmVars, appVars, runVars>>

\* handleRun, lines 234-239
handleRun ==
    /\ vOps < MaxOps
    /\ vFiles # <<>>
    /\ vFiles' = idsOf(arraysAfterCall(filesOf(vFiles)).files)
    /\ vLogs' = <<>>
    /\ previewHtml' = assemblePreview(filesOf(vFiles)).html
    /\ mainView' = "preview"
    /\ frame' = commitFrame(frame, mainView, previewHtml, mainView', previewHtml')
    /\ vOps' = vOps + 1
    /\ lastOp' = "run"
    /\ UNCHANGED <<channel, extractVars, cppVars, asmVars, appVars, runVars>>

\* the toggle of lines 324 and 337
setMainView(view) ==
    /\ vOps < MaxOps
    /\ vFiles # <<>>
    /\ view # mainView
    /\ mainView' = view
    /\ frame' = commitFrame(frame, mainView, previewHtml, view, previewHtml)
    /\ vOps' = vOps + 1
    /\ lastOp' = "view"
    /\ UNCHANGED <<vFiles, previewHtml, vLogs, channel,
                   extractVars, cppVars, asmVars, appVars, runVars>>

\* the document in the frame runs one console call: send (compiler.ts 140)
\* posts a message to the parent window
FramePosts ==
    /\ frame.todo # <<>>
    /\ channel' = Append(channel, [message |-> Head(frame.todo), gen |-> frame.gen])
    /\ frame' = [frame EXCEPT !.todo = Tail(frame.todo)]
    /\ UNCHANGED <<vFiles, previewHtml, vLogs, mainView, vOps, lastOp,
                   extractVars, cppVars, asmVars, appVars, runVars>>

\* handleMessage, lines 161-167: a posted message is dispatched to the
\* listener, which appends it whatever window it came from
handleMessage ==
    /\ channel # <<>>
    /\ vLogs' = Append(vLogs, Head(channel))
    /\ channel' = Tail(channel)
    /\ UNCHANGED <<vFiles, previewHtml, frame, mainView, vOps, lastOp,
                   extractVars, cppVars, asmVars, appVars, runVars>>

InitView ==
    OtherInitExtract /\ OtherInitCpp /\ OtherInitAsm /\ OtherInitApp /\ OtherInitRun
        /\ OtherInitView

NextView ==
    \/ \E ids \in ViewLists : FilesChanged(ids)
    \/ handleRun
    \/ \E view \in {"code", "preview"} : setMainView(view)
    \/ FramePosts
    \/ handleMessage

SpecView == InitView /\ [][NextView]_vars

\* a document that can run does run, and a posted message is dispatched
SpecViewFair == SpecView /\ WF_vars(FramePosts) /\ WF_vars(handleMessage)

\* ------------------------------------------------------------------------
\* Claims about the viewer
\* ------------------------------------------------------------------------
\* C21 as claimed: after the log was cleared and the sandbox document
\* replaced, every event in the log was posted by the document now in the
\* frame; no event of a discarded document is appended, one in flight
\* included.
C21_NoStaleEvents ==
    lastOp = "run" => \A i \in 1..Len(vLogs) : vLogs[i].gen = frame.gen

\* the same for a new list of files, which clears the log and replaces the
\* document as Run does
C21_NoStaleEventsOfOldFiles ==
    lastOp = "files" => \A i \in 1..Len(vLogs) : vLogs[i].gen = frame.gen

\* the document's events are in the log, posted by the frame that is there
Delivered ==
    \A k \in 1..Len(postedBy(previewHtml)) :
        \E i \in 1..Len(vLogs) :
            /\ vLogs[i].message = postedBy(previewHtml)[k]
            /\ vLogs[i].gen = frame.gen

\* C22 as claimed: every Run gives a fresh sandbox that executes the
\* document again, so after the log was cleared the events of the document
\* are eventually delivered again, also when the artifact list has not
\* changed since the previous assembly.
C22_RunDeliversAgain ==
    [](lastOp = "run" => <>(lastOp # "run" \/ Delivered))

\* Run from the code view mounts the frame anew, and then the events are
\* delivered again
C22_RunFromCodeView ==
    [][(handleRun /\ mainView = "code") => frame'.gen = frame.gen + 1]_vars

C22_RunFromCodeViewWitness ==
    /\ lastOp = "run" /\ frame.gen = 2 /\ vLogs = <<[message |-> "x", gen |-> 2]>>

C23_ArgumentKept ==
    vFiles # <<>> => vFiles \in ViewLists

Range(s) == {s[i] : i \in 1..Len(s)}

\* the histories a handler can write back: the one of the state and the
\* ones captured by the handlers that wait
KnownLists ==
    Range(history) \cup UNION {Range(inflight[i].history) : i \in 1..Len(inflight)}

\* C24: an artifact list that was pushed to history is never modified,
\* whatever operations follow. Every list of the history after a step, the
\* one the step may have pushed at the end aside, is a list that existed
\* before the step, unchanged in length, order, names, languages and
\* contents; and manual save and partial edit push a list of their own.
C24_PushedListsKept ==
    [][/\ \A k \in 1..(Len(history') - 1) : history'[k] \in KnownLists
       /\ history' # history => history'[Len(history')] = generatedFiles']_vars

\* a manual save pushed a list that differs from the entry it was made from
C24_Witness ==
    /\ Len(history) = 2 /\ historyIndex = 1
    /\ history[2] = withContent(history[1], 1, <<"typed">>)
    /\ history[2] # history[1]

\* C25: when two edit or fix requests overlap and both succeed, the lists of
\* both results are entries of history once both have completed. A request
\* that still waits when another completes overlaps with it; the step
\* below is the completion of such a request right after the other one.
C25_BothResultsKept ==
    [][\A i \in 1..Len(inflight), r \in ResponseIds :
          (/\ lastDone.some /\ lastDone.val.kind \in {"edit", "fix"}
           /\ lastDone.val.files # <<>> /\ filesOfResponse(r) # <<>>
           /\ aiResolved(i, r))
          => /\ lastDone.val.files \in Range(history')
             /\ filesOfResponse(r) \in Range(history')]_vars

\* the result of the request that completes last is always the entry shown
C25_LastResultKept ==
    [][\A i \in 1..Len(inflight), r \in ResponseIds :
          aiResolved(i, r) =>
              /\ history'[historyIndex' + 1] = filesOfResponse(r)
              /\ generatedFiles' = filesOfResponse(r)]_vars

\* C26: in every reachable state with a non-empty history and no request in
\* flight, historyIndex is an index of history and the displayed list is the
\* entry at that index.
C26_DisplayedIsCurrentEntry ==
    (history # <<>> /\ inflight = <<>>) =>
        /\ 0 <= historyIndex /\ historyIndex < Len(history)
        /\ generatedFiles = history[historyIndex + 1]

\* the index is an index of history whenever history is not empty, requests
\* in flight or not
C26_IndexInRange ==
    history # <<>> => (0 <= historyIndex /\ historyIndex < Len(history))

\* the displayed list is the current entry unless a generation was started
\* since the entry was shown
C26_DisplayedUnlessGenerating ==
    (history # <<>> /\ generatedFiles # <<>>) => generatedFiles = history[historyIndex + 1]

\* C27: when a generate, edit, fix or partial-edit request fails, the error
\* is set, isGenerating becomes false, and the displayed list, history and
\* historyIndex are what they were before the request was issued.
C27_FailureRestores ==
    [][\A i \in 1..Len(inflight) :
          requestRejected(i) =>
              /\ genState'.error /\ ~genState'.isGenerating
              /\ generatedFiles' = inflight[i].generatedFiles
              /\ history' = inflight[i].history
              /\ historyIndex' = inflight[i].historyIndex]_vars

\* the catch block itself sets the error and touches neither the list nor
\* the history
C27_CatchKeepsState ==
    [][\A i \in 1..Len(inflight) :
          requestRejected(i) =>
              /\ genState'.error /\ ~genState'.isGenerating
              /\ generatedFiles' = generatedFiles
              /\ history' = history
              /\ historyIndex' = historyIndex]_vars

\* C28: isGenerating is true in every state in which a generate, edit, fix
\* or partial-edit request is in flight, and false when none is.
C28_GeneratingIffInFlight ==
    genState.isGenerating <=> inflight # <<>>

\* isGenerating is never true without a request in flight
C28_GeneratingOnlyInFlight ==
    genState.isGenerating => inflight # <<>>

\* C30: undo and redo are inverse on the history stack. In any state where
\* the undo button is enabled, undo followed immediately by redo gives the
\* historyIndex and the displayed list back; in any state where the redo
\* button is enabled, redo followed by undo does; and neither changes the
\* contents or the length of history.
C30_UndoRedoInverse ==
    Len(generatedFiles) > 0 =>
        /\ canUndo(appState) =>
              /\ canRedo(undo(appState))
              /\ redo(undo(appState)) = appState
              /\ undo(appState).history = history
        /\ canRedo(appState) =>
              /\ canUndo(redo(appState))
              /\ undo(redo(appState)) = appState
              /\ redo(appState).history = history

\* an undo was made from the second of two different entries, and redo is
\* enabled
C30_Witness ==
    /\ Len(history) = 2 /\ historyIndex = 0
    /\ generatedFiles = history[1] /\ history[1] # history[2]
    /\ canRedo(appState) /\ redo(appState).generatedFiles = history[2]

\* ------------------------------------------------------------------------
\* The synthesized mount call
\* ------------------------------------------------------------------------
\* an import statement of the block before the bodies binds the name
Binds(html, name) == CountSeq(ImportBlock(html), <<"import ", name, " from ">>) > 0

RootElement == "<div id=\"root\">"

\* C29: whenever framework linking synthesizes a mount call, the document
\* provides what the call uses: the linked script holds import statements
\* binding ReactDOM and React, and the base document holds an element with
\* id root.
C29_MountProvided ==
    (out.some /\ Count(out.val.html, SynthesizedMount) > 0) =>
        /\ Binds(out.val.html, "ReactDOM")
        /\ Binds(out.val.html, "React")
        /\ Count(out.val.html, RootElement) > 0

\* the same for the root element alone, when no markup artifact is the base
C29_RootInShell ==
    (out.some /\ Count(out.val.html, SynthesizedMount) > 0
        /\ "markup" \notin RolesOf(aFiles) /\ "preview" \notin RolesOf(aFiles)) =>
        Count(out.val.html, RootElement) > 0

C29_RootInShellWitness ==
    /\ out.some /\ aFiles = <<AppJsx>>
    /\ Count(out.val.html, SynthesizedMount) > 0
    /\ Count(out.val.html, RootElement) > 0
    /\ ~Binds(out.val.html, "ReactDOM")

=============================================================================
